---- MODULE Spec2Model ----
(***************************************************************************)
(* dbd - the database helper tool (apr-tools).                             *)
(*                                                                         *)
(* A model of the parameter scanner and argument resolver dbd_arguments,   *)
(* of dbd_resolve_argument, and of the modes run_select and run_query as   *)
(* main dispatches them.  Strings are sequences of one-character strings;  *)
(* the C NUL terminator is the value NUL read just past the end.           *)
(***************************************************************************)
EXTENDS Integers, Sequences, FiniteSets, TLC

\* ------------------------------------------------------------------ bounds

\* Statements of the scanner specification are built from at most this many tokens.
MaxTokens == 3
\* At most this many -a / -f / -z argument sources are registered.
MaxArgs == 2
\* The long stream of the resolver specification holds up to this many bytes.
MaxStreamLen == 2050
\* At most this many positional statements are given to a run.
MaxStmts == 2
\* A cursor returns at most this many rows; a query affects at most as many.
MaxRows == 1
\* A cursor has at most this many columns.
MaxCols == 2
\* The largest value read from the uninitialised `size`.
MaxUninit == 4
\* main reads at most this many argument options.
MaxOptions == 4
\* A row count of more than one digit.
ManyRows == 12

\* ------------------------------------------------------- program constants

\* apr_size_t len = 1024: the first buffer of dbd_resolve_argument.
INITIAL_LEN == 1024

APR_SUCCESS == "APR_SUCCESS"
APR_EOF == "APR_EOF"
APR_EINVAL == "APR_EINVAL"
APR_EGENERAL == "APR_EGENERAL"
APR_EIO == "APR_EIO"
APR_ENOSPC == "APR_ENOSPC"
APR_EFETCH == "DBD_GET_ROW_FAILED"
APR_ECONN == "DBD_OPEN_FAILED"
APR_EPREPARE == "DBD_PREPARE_FAILED"
APR_EEXEC == "DBD_EXECUTE_FAILED"

DEFAULT_ENCODING == "echo"
DEFAULT_END_OF_COLUMN == <<"\t">>
DEFAULT_END_OF_LINE == <<"\n">>

\* ----------------------------------------------------------------- strings

NUL == "NUL"

\* A NULL char pointer (no string at all), distinct from every string.
NULLSTR == <<"(null)">>

Lower == {"a", "b", "c", "d", "e", "f", "g", "h", "i", "j", "k", "l", "m",
          "n", "o", "p", "q", "r", "s", "t", "u", "v", "w", "x", "y", "z"}

Upper == {"A", "B", "C", "D", "E", "F", "G", "H", "I", "J", "K", "L", "M",
          "N", "O", "P", "Q", "R", "S", "T", "U", "V", "W", "X", "Y", "Z"}

apr_isalpha(c) == c \in Lower \cup Upper

\* q[k] for a C string: the character, or the terminator just past the end.
At(s, k) == IF k >= 1 /\ k <= Len(s) THEN s[k] ELSE NUL

\* ------------------------------------------------------------------- types

APR_DBD_TYPE_NONE == "NONE"
APR_DBD_TYPE_STRING == "STRING"
APR_DBD_TYPE_BLOB == "BLOB"
APR_DBD_TYPE_CLOB == "CLOB"

DbdTypes == {"NONE", "TINY", "UTINY", "SHORT", "USHORT", "INT", "UINT",
             "LONG", "ULONG", "LONGLONG", "ULONGLONG", "FLOAT", "DOUBLE",
             "STRING", "TEXT", "TIME", "DATE", "DATETIME", "TIMESTAMP",
             "ZTIMESTAMP", "BLOB", "CLOB", "NULL"}

\* ------------------------------------------------- dbd_arguments, the scanner

\* The counting pass without the `%%` branch: every `%` before a letter counts.
RECURSIVE CountParamsNoEscape(_, _)
CountParamsNoEscape(query, q) ==
    IF q > Len(query) THEN 0
    ELSE IF query[q] = "%" /\ apr_isalpha(At(query, q + 1))
         THEN 1 + CountParamsNoEscape(query, q + 1)
         ELSE CountParamsNoEscape(query, q + 1)

\* The first loop: nargs counted from position q on.
RECURSIVE CountParams(_, _)
CountParams(query, q) ==
    IF q > Len(query) THEN 0
    ELSE IF query[q] = "%"
         THEN IF apr_isalpha(At(query, q + 1))
              THEN 1 + CountParams(query, q + 1)
              ELSE IF At(query, q + 1) = "%"
                   THEN CountParams(query, q + 2)
                   ELSE CountParams(query, q + 1)
         ELSE CountParams(query, q + 1)

\* switch (q[1]) of the second loop at the `%` at position q: the type assigned to
\* t[i] (assign FALSE: no case assigns) and the extra characters consumed.
MatchType(query, q) ==
    LET c1 == At(query, q + 1)
        c2 == At(query, q + 2)
        c3 == At(query, q + 3)
        none == [assign |-> FALSE, type |-> APR_DBD_TYPE_NONE, adv |-> 0]
        hit(ty, n) == [assign |-> TRUE, type |-> ty, adv |-> n]
    IN  CASE c1 = "d" -> hit("INT", 0)
          [] c1 = "u" -> hit("UINT", 0)
          [] c1 = "f" -> hit("FLOAT", 0)
          [] c1 = "h" ->
                (CASE c2 = "h" ->
                        (CASE c3 = "d" -> hit("TINY", 2)
                           [] c3 = "u" -> hit("UTINY", 2)
                           [] OTHER -> none)
                   [] c2 = "d" -> hit("SHORT", 1)
                   [] c2 = "u" -> hit("USHORT", 1)
                   [] OTHER -> none)
          [] c1 = "l" ->
                (CASE c2 = "l" ->
                        (CASE c3 = "d" -> hit("LONGLONG", 2)
                           [] c3 = "u" -> hit("ULONGLONG", 2)
                           [] OTHER -> none)
                   [] c2 = "d" -> hit("LONG", 1)
                   [] c2 = "u" -> hit("ULONG", 1)
                   [] c2 = "f" -> hit("DOUBLE", 1)
                   [] OTHER -> none)
          [] c1 = "p" ->
                (IF c2 = "D"
                 THEN CASE c3 = "t" -> hit("TEXT", 2)
                        [] c3 = "i" -> hit("TIME", 2)
                        [] c3 = "d" -> hit("DATE", 2)
                        [] c3 = "a" -> hit("DATETIME", 2)
                        [] c3 = "s" -> hit("TIMESTAMP", 2)
                        [] c3 = "z" -> hit("ZTIMESTAMP", 2)
                        [] c3 = "b" -> hit("BLOB", 2)
                        [] c3 = "c" -> hit("CLOB", 2)
                        [] c3 = "n" -> hit("NULL", 2)
                        [] OTHER -> none
                 ELSE none)
          [] OTHER -> none

\* The type array t has Len(st.t) entries, t[0] being st.t[1].  A store or load at
\* an index past the end is out of bounds: it lands in the memory after the array
\* (st.past), whose content before the first store is arbitrary.
Store(st, i, ty) ==
    IF i < Len(st.t)
    THEN [st EXCEPT !.t[i + 1] = ty]
    ELSE [st EXCEPT !.past = ty, !.oob = TRUE]

Load(st, i) == IF i < Len(st.t) THEN st.t[i + 1] ELSE st.past

\* `nvals += 2` for `nvals += 3`.
MoreValuesTwo(ty) ==
    IF ty \in {APR_DBD_TYPE_BLOB, APR_DBD_TYPE_CLOB} THEN 2 ELSE 0

\* switch (t[i]) of lines 479-489: "three (3) more values passed in" for a blob
\* or clob, on top of the one slot nvals = nargs counts for every parameter.
MoreValues(ty) ==
    IF ty \in {APR_DBD_TYPE_BLOB, APR_DBD_TYPE_CLOB} THEN 3 ELSE 0

\* The index i of the second loop after a parameter: `for (q = query, i = 0; *q; q++)`
\* initialises i and no statement of the loop advances it.
ClassifyIndexAfter(i) == i

\* The second loop from position q on, with type index i.
RECURSIVE ClassifyFrom(_, _, _, _)
ClassifyFrom(query, q, i, st) ==
    IF q > Len(query) THEN st
    ELSE IF query[q] = "%" /\ apr_isalpha(At(query, q + 1))
         THEN LET m == MatchType(query, q)
                  st1 == IF m.assign THEN Store(st, i, m.type) ELSE st
                  cur == Load(st1, i)
                  st2 == IF cur = APR_DBD_TYPE_NONE
                         THEN Store(st1, i, APR_DBD_TYPE_STRING)
                         ELSE [st1 EXCEPT !.nvals = @ + MoreValues(cur)]
                  st3 == [st2 EXCEPT
                            !.oob = @ \/ i >= Len(st.t),
                            !.writes = Append(@, [q |-> q, i |-> i,
                                                  type |-> Load(st2, i)])]
              IN  ClassifyFrom(query, q + m.adv + 2, ClassifyIndexAfter(i), st3)
         ELSE ClassifyFrom(query, q + 1, i, st)

\* Both loops of dbd_arguments: nargs, the zeroed array t of nargs types, nvals.
\* wild is what the memory after t holds before the scan.
ScanStatement(query, wild) ==
    LET n == CountParams(query, 1)
        st0 == [t |-> [k \in 1..n |-> APR_DBD_TYPE_NONE], past |-> wild,
                nvals |-> n, oob |-> FALSE, writes |-> <<>>]
        st == ClassifyFrom(query, 1, 0, st0)
    IN  [nargs |-> n, t |-> st.t, nvals |-> st.nvals, oob |-> st.oob,
         writes |-> st.writes]

\* What the memory after t may hold: anything when the scan reaches it, and of
\* no account when it does not.
WildTypes(query) ==
    IF ScanStatement(query, APR_DBD_TYPE_NONE).oob
    THEN DbdTypes
    ELSE {APR_DBD_TYPE_NONE}

\* ------------------------------------------------- dbd_resolve_argument

\* An argument source as main registers it (the array is zero filled):
\* -a sets encoded, -f sets fd, -z sets neither.
Literal(s) == [encoded |-> s, decoded |-> NULLSTR, fd |-> 0, size |-> 0,
               status |-> APR_SUCCESS]
Stream(h) == [encoded |-> NULLSTR, decoded |-> NULLSTR, fd |-> h, size |-> 0,
              status |-> APR_SUCCESS]
NullArg == [encoded |-> NULLSTR, decoded |-> NULLSTR, fd |-> 0, size |-> 0,
            status |-> APR_SUCCESS]

\* apr_file_read_full(fd, off, want, &l): exactly want bytes and APR_SUCCESS, or
\* the bytes left and APR_EOF; ioerr makes the read fail with nothing read.
apr_file_read_full(f, want, ioerr) ==
    LET left == Len(f.content) - f.pos
    IN  IF ioerr
        THEN [status |-> APR_EIO, l |-> 0, data |-> <<>>, pos |-> f.pos]
        ELSE IF left >= want
             THEN [status |-> APR_SUCCESS, l |-> want,
                   data |-> SubSeq(f.content, f.pos + 1, f.pos + want),
                   pos |-> f.pos + want]
             ELSE [status |-> APR_EOF, l |-> left,
                   data |-> SubSeq(f.content, f.pos + 1, Len(f.content)),
                   pos |-> Len(f.content)]

\* The bytes of buffer after data was read in at offset off ("?" is a byte no
\* read has set).
WriteAt(buffer, off, data) ==
    IF off <= Len(buffer)
    THEN SubSeq(buffer, 1, off) \o data
    ELSE buffer \o [k \in 1..(off - Len(buffer)) |-> "?"] \o data

\* buffer[0..size-1], the string that buffer[size] = 0 terminates.
Terminated(buffer, size) ==
    [k \in 1..size |-> IF k <= Len(buffer) THEN buffer[k] ELSE "?"]

\* The read loop with the closing `size += l` left out.
RECURSIVE ReadLoopDropsTail(_, _, _, _, _, _)
ReadLoopDropsTail(f, buffer, off, size, len, ioerr) ==
    LET r == apr_file_read_full(f, len - off - 1, ioerr)
        filled == WriteAt(buffer, off, r.data)
    IN  IF r.status = APR_SUCCESS
        THEN ReadLoopDropsTail([f EXCEPT !.pos = r.pos], filled, size + r.l,
                               size + r.l, len * 2, ioerr)
        ELSE [decoded |-> Terminated(filled, size), size |-> size,
              status |-> r.status, pos |-> r.pos]

\* while (APR_SUCCESS == apr_file_read_full(fd, off, len - (off - buffer) - 1, &l))
\* { size += l; len *= 2; realloc; off = buffer + size; }  size += l; buffer[size] = 0.
RECURSIVE ReadLoop(_, _, _, _, _, _)
ReadLoop(f, buffer, off, size, len, ioerr) ==
    LET r == apr_file_read_full(f, len - off - 1, ioerr)
        filled == WriteAt(buffer, off, r.data)
    IN  IF r.status = APR_SUCCESS
        THEN ReadLoop([f EXCEPT !.pos = r.pos], filled, size + r.l,
                      size + r.l, len * 2, ioerr)
        ELSE [decoded |-> Terminated(filled, size + r.l), size |-> size + r.l,
              status |-> r.status, pos |-> r.pos]

\* dbd_resolve_argument with a literal that is used up by its first resolution.
ResolveConsumesLiteral(arg, fs, ioerr) ==
    IF arg.encoded # NULLSTR
    THEN [arg |-> [arg EXCEPT !.decoded = arg.encoded,
                              !.size = Len(arg.encoded),
                              !.encoded = <<>>],
          files |-> fs, status |-> APR_SUCCESS]
    ELSE IF arg.fd # 0
         THEN LET r == ReadLoop(fs[arg.fd], <<>>, 0, 0, INITIAL_LEN, ioerr)
              IN  [arg |-> [arg EXCEPT !.decoded = r.decoded, !.size = r.size,
                                       !.status = r.status],
                   files |-> [fs EXCEPT ![arg.fd].pos = r.pos],
                   status |-> r.status]
         ELSE [arg |-> arg, files |-> fs, status |-> APR_SUCCESS]

\* dbd_resolve_argument(pool, err, arg): the argument and the files afterwards,
\* and the status returned.
dbd_resolve_argument(arg, fs, ioerr) ==
    IF arg.encoded # NULLSTR
    THEN [arg |-> [arg EXCEPT !.decoded = arg.encoded,
                              !.size = Len(arg.encoded)],
          files |-> fs, status |-> APR_SUCCESS]
    ELSE IF arg.fd # 0
         THEN LET r == ReadLoop(fs[arg.fd], <<>>, 0, 0, INITIAL_LEN, ioerr)
              IN  [arg |-> [arg EXCEPT !.decoded = r.decoded, !.size = r.size,
                                       !.status = r.status],
                   files |-> [fs EXCEPT ![arg.fd].pos = r.pos],
                   status |-> r.status]
         ELSE [arg |-> arg, files |-> fs, status |-> APR_SUCCESS]

\* ------------------------------------------- dbd_arguments, the bound values

\* A slot of vals: NULL, args[arg].decoded or &args[arg].size.
NullSlot == [kind |-> "null", arg |-> 0]
DecodedSlot(n) == [kind |-> "decoded", arg |-> n]
SizeSlot(n) == [kind |-> "size", arg |-> n]

\* vals[idx] = v, with vals[0] being vs[1]; a store past the end is dropped here
\* and reported by StoreOverruns.
SetSlot(vs, idx, v) ==
    IF idx < Len(vs) THEN [vs EXCEPT ![idx + 1] = v] ELSE vs

\* The slots one turn of the third loop stores for argument i at slot j
\* (switch (t[i]) of lines 524-535), and j after the stores.
StoreSlots(vs, ty, ci, cj) ==
    IF ty \in {APR_DBD_TYPE_BLOB, APR_DBD_TYPE_CLOB}
    THEN [vals |-> SetSlot(SetSlot(SetSlot(SetSlot(vs,
                       cj, DecodedSlot(ci + 1)),
                       cj + 1, SizeSlot(ci + 1)),
                       cj + 2, NullSlot),
                       cj + 3, NullSlot),
          j |-> cj + 3]
    ELSE [vals |-> SetSlot(vs, ci, DecodedSlot(ci + 1)), j |-> cj]

\* Whether that turn stores outside vals.
StoreOverruns(vs, ty, ci, cj) ==
    IF ty \in {APR_DBD_TYPE_BLOB, APR_DBD_TYPE_CLOB}
    THEN cj + 3 >= Len(vs)
    ELSE ci >= Len(vs)

\* ------------------------------------------------------------------- state

VARIABLES
    pc,        \* where the program is
    mode,      \* the mode function running, or the tool; "arguments": one call
    header,    \* --header
    noeol,     \* --no-end-of-line
    argv,      \* the positional statements (or table names)
    argp,      \* the number of positional arguments taken so far
    args,      \* the registered argument sources, in command-line order
    files,     \* the open files: their content and read position
    query,     \* the statement text in hand
    nargs,     \* dbd_arguments: parameters counted by the first loop
    nvals,     \* dbd_arguments: slots allocated for vals
    t,         \* dbd_arguments: the type array
    oob,       \* dbd_arguments: the second loop went outside t
    twrites,   \* dbd_arguments: the parameters the second loop classified
    vals,      \* dbd_arguments: the bound-value array
    i,         \* dbd_arguments: third loop, argument index
    j,         \* dbd_arguments: third loop, slot index
    overrun,   \* dbd_arguments: the third loop stored outside vals
    calls,     \* the calls made to the database driver, in order
    res,       \* the open cursor: its columns and the rows left
    end,       \* run_select: a line has been written
    rows,      \* run_query: the number of rows affected
    out,       \* the bytes written to the output file
    err,       \* the messages written to stderr
    status,    \* the status the mode function returned
    fds,       \* main: the hash of the files opened for --file-argument, by name
    opens,     \* main: the names handed to apr_file_open, in order
    encoding,  \* --encoding
    eoc,       \* --end-of-column
    eol,       \* --end-of-line
    size,      \* run_select: the local `size` handed to apr_file_write
    events,    \* the cursors the driver returned and the lines written for them
    exitcode,  \* the exit status of the process
    opts,      \* main: the options of the command line that are read in turn
    result,    \* endec: the data as transformed so far
    faulty     \* the row fetches and the writes to the output may fail

vars == <<pc, mode, header, noeol, argv, argp, args, files, query, nargs, nvals,
          t, oob, twrites, vals, i, j, overrun, calls, res, end, rows, out,
          err, status, fds, opens, encoding, eoc, eol, size, events, exitcode,
          opts, result, faulty>>

scanVars == <<nargs, nvals, t, oob, twrites>>
loopVars == <<vals, i, j, overrun>>
fmtVars == <<encoding, eoc, eol>>
mainVars == <<fds, opens, exitcode>>
toolVars == <<opts, result, faulty>>
runVars == <<mode, header, noeol, argv, argp, calls, res, end, rows, out,
             fmtVars, mainVars, toolVars, size, events>>

NoCursor == [cols |-> 0, rows |-> 0, open |-> FALSE]

\* The local `size` of run_select is declared without a value (line 697); once
\* stored it is <<n>>.
Uninitialised == <<>>

\* An entry of the record of a run: a file named by --file-argument (the
\* argument it became, its name, its handle), a cursor handed out by the driver
\* (its columns and rows), or a line written for a cursor (its fields).
Event(kind, stmt, fields, c, n) ==
    [kind |-> kind, stmt |-> stmt, fields |-> fields, cols |-> c, rows |-> n]

\* An error line on stderr.
Message(what, q, a, b) == [msg |-> what, query |-> q, a |-> a, b |-> b]

\* ---------------------------------------------------- dbd_arguments, by steps

\* The two scanning loops (lines 415-494).
ScanQuery ==
    /\ pc = "scan"
    /\ \E wild \in WildTypes(query) :
          LET r == ScanStatement(query, wild)
          IN  /\ nargs' = r.nargs
              /\ nvals' = r.nvals
              /\ t' = r.t
              /\ oob' = r.oob
              /\ twrites' = r.writes
    /\ pc' = "check"
    /\ UNCHANGED <<loopVars, runVars, args, files, query, err, status>>

\* The sanity check placed after the resolving loop: every source is resolved
\* before the counts are compared.
SanityCheckLate ==
    /\ pc = "check"
    /\ IF Len(args) # nargs
       THEN /\ err' = Append(err, Message("expects", query, nargs, Len(args)))
            /\ status' = APR_EINVAL
            /\ pc' = "exit"
            /\ files' = [h \in DOMAIN files |->
                            [files[h] EXCEPT !.pos = Len(files[h].content)]]
            /\ UNCHANGED <<loopVars>>
       ELSE /\ vals' = [k \in 1..nvals |-> NullSlot]
            /\ i' = 0
            /\ j' = 0
            /\ overrun' = FALSE
            /\ pc' = "resolve"
            /\ UNCHANGED <<err, status, files>>
    /\ UNCHANGED <<scanVars, runVars, args, query>>

\* The sanity check with `<` for `!=`: sources in excess pass.
SanityCheckTooFewOnly ==
    /\ pc = "check"
    /\ IF Len(args) < nargs
       THEN /\ err' = Append(err, Message("expects", query, nargs, Len(args)))
            /\ status' = APR_EINVAL
            /\ pc' = "exit"
            /\ UNCHANGED <<loopVars>>
       ELSE /\ vals' = [k \in 1..nvals |-> NullSlot]
            /\ i' = 0
            /\ j' = 0
            /\ overrun' = FALSE
            /\ pc' = "resolve"
            /\ UNCHANGED <<err, status>>
    /\ UNCHANGED <<scanVars, runVars, args, files, query>>

\* The sanity check letting a later statement take fewer sources than there
\* are, as if the statements shared them out.
SanityCheckSharedOut ==
    /\ pc = "check"
    /\ IF Len(args) < nargs \/ (argp <= 1 /\ Len(args) # nargs)
       THEN /\ err' = Append(err, Message("expects", query, nargs, Len(args)))
            /\ status' = APR_EINVAL
            /\ pc' = "exit"
            /\ UNCHANGED <<loopVars>>
       ELSE /\ vals' = [k \in 1..nvals |-> NullSlot]
            /\ i' = 0
            /\ j' = 0
            /\ overrun' = FALSE
            /\ pc' = "resolve"
            /\ UNCHANGED <<err, status>>
    /\ UNCHANGED <<scanVars, runVars, args, files, query>>

\* The sanity check reporting on the output file instead of stderr.
SanityCheckOnOut ==
    /\ pc = "check"
    /\ IF Len(args) # nargs
       THEN /\ err' = Append(err, Message("expects", query, nargs, Len(args)))
            /\ out' = out \o <<"D", "B", "D">>
            /\ status' = APR_EINVAL
            /\ pc' = "exit"
            /\ UNCHANGED <<loopVars>>
       ELSE /\ vals' = [k \in 1..nvals |-> NullSlot]
            /\ i' = 0
            /\ j' = 0
            /\ overrun' = FALSE
            /\ pc' = "resolve"
            /\ UNCHANGED <<err, status, out>>
    /\ UNCHANGED <<scanVars, mode, header, noeol, argv, argp, calls, res, end,
                   rows, args, files, query, fmtVars, mainVars, toolVars, size,
                   events>>

\* The sanity check (lines 496-503) and the allocation of vals (line 505); the
\* caller turns the NULL returned into APR_EINVAL.
SanityCheck ==
    /\ pc = "check"
    /\ IF Len(args) # nargs
       THEN /\ err' = Append(err, Message("expects", query, nargs, Len(args)))
            /\ status' = APR_EINVAL
            /\ pc' = "exit"
            /\ UNCHANGED <<loopVars>>
       ELSE /\ vals' = [k \in 1..nvals |-> NullSlot]
            /\ i' = 0
            /\ j' = 0
            /\ overrun' = FALSE
            /\ pc' = "resolve"
            /\ UNCHANGED <<err, status>>
    /\ UNCHANGED <<scanVars, runVars, args, files, query>>

\* One turn of the third loop (lines 506-537): resolve args[i], store its slots.
ResolveStep ==
    /\ pc = "resolve"
    /\ i < nargs /\ j < nvals
    /\ \E ioerr \in (IF args[i + 1].encoded = NULLSTR /\ args[i + 1].fd # 0
                     THEN BOOLEAN ELSE {FALSE}) :
          LET r == dbd_resolve_argument(args[i + 1], files, ioerr)
              s == StoreSlots(vals, t[i + 1], i, j)
          IN  /\ args' = [args EXCEPT ![i + 1] = r.arg]
              /\ files' = r.files
              /\ IF r.status \in {APR_SUCCESS, APR_EOF}
                 THEN /\ vals' = s.vals
                      /\ overrun' = (overrun \/ StoreOverruns(vals, t[i + 1], i, j))
                      /\ i' = i + 1
                      /\ j' = s.j + 1
                      /\ UNCHANGED <<pc, err, status>>
                 ELSE /\ err' = Append(err, Message("reading", query, i, 0))
                      /\ status' = APR_EINVAL
                      /\ pc' = "exit"
                      /\ UNCHANGED <<loopVars>>
    /\ UNCHANGED <<scanVars, runVars, query>>

\* The third loop ends and dbd_arguments returns vals (line 539).
ResolveDone ==
    /\ pc = "resolve"
    /\ ~(i < nargs /\ j < nvals)
    /\ pc' = "bound"
    /\ UNCHANGED <<scanVars, loopVars, runVars, args, files, query, err, status>>

dbd_arguments == ScanQuery \/ SanityCheck \/ ResolveStep \/ ResolveDone

\* ------------------------------------- the scanner and resolver on their own

\* The pieces statements are put together from.
Tokens == { <<"%">>, <<"%", "%">>, <<"d">>, <<"l">>, <<" ">>, <<"%", "s">>,
            <<"%", "p", "D", "b">> }

RECURSIVE TokenStrings(_)
TokenStrings(n) ==
    IF n = 0 THEN {<<>>}
    ELSE LET shorter == TokenStrings(n - 1)
         IN  shorter \cup {s \o tk : s \in shorter, tk \in Tokens}

Queries == TokenStrings(MaxTokens)

\* The bytes of a file with n bytes, each byte named by its place.
StreamBytes(n) == [k \in 1..n |-> ToString(k)]

SmallFile == [content |-> <<"f", "g">>, pos |-> 0]

Sources == {Literal(<<"a">>), Stream(1), NullArg}

ArgLists == UNION {[1..n -> Sources] : n \in 0..MaxArgs}

\* No --encoding, --end-of-column or --end-of-line option was given.
DefaultFormat ==
    /\ encoding = DEFAULT_ENCODING
    /\ eoc = DEFAULT_END_OF_COLUMN
    /\ eol = DEFAULT_END_OF_LINE

\* The sources stand for files already opened; the hash of names is left out,
\* and so are the options they came from.
NoFilesByName ==
    /\ fds = {}
    /\ opens = <<>>
    /\ opts = <<>>

\* The database hands out every row and the output takes every byte.
NoFaults == faulty = FALSE

InitCommon ==
    /\ argp = 0
    /\ nargs = 0
    /\ nvals = 0
    /\ t = <<>>
    /\ oob = FALSE
    /\ twrites = <<>>
    /\ vals = <<>>
    /\ i = 0
    /\ j = 0
    /\ overrun = FALSE
    /\ calls = <<>>
    /\ res = NoCursor
    /\ end = FALSE
    /\ rows = 0
    /\ out = <<>>
    /\ err = <<>>
    /\ status = APR_SUCCESS
    /\ size = Uninitialised
    /\ events = <<>>
    /\ exitcode = 0
    /\ result = <<>>

\* dbd_arguments is entered with any statement and any sources, or with a statement
\* of two parameters whose two sources are one file of any length.
InitArguments ==
    /\ InitCommon
    /\ mode = "arguments"
    /\ header = FALSE
    /\ noeol = FALSE
    /\ DefaultFormat
    /\ NoFilesByName
    /\ NoFaults
    /\ pc = "scan"
    /\ argv = <<>>
    /\ \/ /\ query \in Queries
          /\ args \in ArgLists
          /\ files = [h \in {1} |-> SmallFile]
       \/ /\ query = <<"%", "s", "%", "s">>
          /\ args = <<Stream(1), Stream(1)>>
          /\ \E n \in 0..MaxStreamLen :
                files = [h \in {1} |-> [content |-> StreamBytes(n), pos |-> 0]]

SpecArguments == InitArguments /\ [][dbd_arguments]_vars

\* ------------------------------------------------------- main, the options

\* The handle of standard input, opened before the options are read (line 887).
StdinHandle == 1

\* The names given to --file-argument.
FileNames == { <<"-">>, <<"a">>, <<"b">> }

\* The statuses apr_file_open fails with, which exit() passes on as they are.
OpenFailures == { [status |-> "ENOENT", code |-> 2],
                  [status |-> "EACCES", code |-> 13] }

\* A hash lookup that never finds the name.
HashGetMisses(hash, key) == 0

\* apr_hash_get(fds, optarg, APR_HASH_KEY_STRING): the handle kept for the name,
\* or 0 for NULL.
apr_hash_get(hash, key) ==
    IF \E e \in hash : e.name = key
    THEN (CHOOSE e \in hash : e.name = key).fd
    ELSE 0

\* apr_hash_set(fds, optarg, APR_HASH_KEY_STRING, arg->fd).
apr_hash_set(hash, key, fd) ==
    {e \in hash : e.name # key} \cup {[name |-> key, fd |-> fd]}

optVars == <<scanVars, loopVars, fmtVars, toolVars, mode, header, noeol, argv,
             argp, calls, res, end, rows, out, query, size>>

\* --argument val (lines 940-946).
OptArgument ==
    /\ pc = "options"
    /\ Len(args) < MaxOptions
    /\ args' = Append(args, Literal(<<"a">>))
    /\ UNCHANGED <<optVars, pc, files, fds, opens, events, err, status, exitcode>>

\* --file-argument file (lines 947-969): `-` is standard input; any other name is
\* looked up in the hash and opened when it is not there.  A file that cannot be
\* opened ends the process.
OptFileArgument ==
    /\ pc = "options"
    /\ Len(args) < MaxOptions
    /\ \E name \in FileNames :
          LET known == apr_hash_get(fds, name)
              fresh == Cardinality(DOMAIN files) + 1
              named(fd) == Append(events,
                                  Event("file", Len(args) + 1, name, 0, fd))
          IN  IF name = <<"-">>
              THEN /\ args' = Append(args, Stream(StdinHandle))
                   /\ events' = named(StdinHandle)
                   /\ UNCHANGED <<pc, files, fds, opens, err, status, exitcode>>
              ELSE IF known # 0
              THEN /\ args' = Append(args, Stream(known))
                   /\ events' = named(known)
                   /\ UNCHANGED <<pc, files, fds, opens, err, status, exitcode>>
              ELSE /\ opens' = Append(opens, name)
                   /\ \/ /\ args' = Append(args, Stream(fresh))
                         /\ files' = [h \in DOMAIN files \cup {fresh} |->
                                         IF h = fresh THEN SmallFile
                                         ELSE files[h]]
                         /\ fds' = apr_hash_set(fds, name, fresh)
                         /\ events' = named(fresh)
                         /\ UNCHANGED <<pc, err, status, exitcode>>
                      \/ /\ \E e \in OpenFailures :
                               /\ status' = e.status
                               /\ exitcode' = e.code
                         /\ args' = Append(args, NullArg)
                         /\ err' = Append(err, Message("open", name, 0, 0))
                         /\ pc' = "done"
                         /\ UNCHANGED <<files, fds, events>>
    /\ UNCHANGED optVars

\* --null-argument (lines 970-975).
OptNullArgument ==
    /\ pc = "options"
    /\ Len(args) < MaxOptions
    /\ args' = Append(args, NullArg)
    /\ UNCHANGED <<optVars, pc, files, fds, opens, events, err, status, exitcode>>

\* apr_getopt_long has no option left (lines 894-895).
OptionsEnd ==
    /\ pc = "options"
    /\ pc' = "parsed"
    /\ UNCHANGED <<optVars, args, files, fds, opens, events, err, status,
                   exitcode>>

main_options == OptArgument \/ OptFileArgument \/ OptNullArgument \/ OptionsEnd

\* main before the first option: standard input is open, no source is
\* registered, no file is in the hash (lines 886-893).
InitOptions ==
    /\ InitCommon
    /\ DefaultFormat
    /\ mode = "none"
    /\ header = FALSE
    /\ noeol = FALSE
    /\ pc = "options"
    /\ argv = <<>>
    /\ args = <<>>
    /\ query = <<>>
    /\ files = [h \in {StdinHandle} |-> SmallFile]
    /\ fds = {}
    /\ opens = <<>>
    /\ opts = <<>>
    /\ NoFaults

SpecOptions == InitOptions /\ [][main_options]_vars

\* ------------------------------------------------------------ the driver

\* A call to the database driver on behalf of positional argument stmt.
Call(op, stmt, q) == [op |-> op, stmt |-> stmt, query |-> q]

\* apr_dbd_escape of a dialect that doubles single quotes (README, EXAMPLES).
RECURSIVE apr_dbd_escape(_)
apr_dbd_escape(s) ==
    IF s = <<>> THEN <<>>
    ELSE (IF Head(s) = "'" THEN <<"'", "'">> ELSE <<Head(s)>>)
         \o apr_dbd_escape(Tail(s))

\* "select * from %s" (line 714).
SelectAllFrom(name) ==
    <<"s", "e", "l", "e", "c", "t", " ", "*", " ", "f", "r", "o", "m", " ">>
    \o name

\* The name of column c and the entry of column c in the row fetched when n rows
\* are left, as the driver hands them out.
ColumnName(c) == <<"n", ToString(c)>>
Entry(n, c) == <<"v", ToString(n), ToString(c)>>

\* ------------------------------------------------------------- formatting

\* apr_pescape_echo(pool, val, 1): backslash, double quote, newline and tab are
\* written as backslash sequences.
RECURSIVE apr_pescape_echo(_)
apr_pescape_echo(val) ==
    IF val = <<>> THEN <<>>
    ELSE (CASE Head(val) = "\\" -> <<"\\", "\\">>
            [] Head(val) = "\"" -> <<"\\", "\"">>
            [] Head(val) = "\n" -> <<"\\", "n">>
            [] Head(val) = "\t" -> <<"\\", "t">>
            [] OTHER -> <<Head(val)>>)
         \o apr_pescape_echo(Tail(val))

\* encode_buffer passing the value through under a name it does not know.
EncodeUnknownAsNone(enc, val) ==
    CASE enc = "echo" -> apr_pescape_echo(val)
      [] enc = "base64" -> <<"base64:">> \o val
      [] enc = "base64url" -> <<"base64url:">> \o val
      [] OTHER -> val

\* encode_buffer(pool, err, encoding, val, &size): the bytes to write, or NULLSTR
\* for the NULL an unknown encoding name gives.  The base64 encoders of the
\* library are left opaque: their output is the value under a marker.
encode_buffer(enc, val) ==
    CASE enc = "echo" -> apr_pescape_echo(val)
      [] enc = "base64" -> <<"base64:">> \o val
      [] enc = "base64url" -> <<"base64url:">> \o val
      [] enc = "none" -> val
      [] OTHER -> NULLSTR

\* What encode_buffer leaves in *size: the length of the encoded value, except
\* that the `none` branch (lines 299-301) returns without storing anything.
EncodedSize(enc, e, sz) == IF enc = "none" THEN sz ELSE Len(e)

\* The values an uninitialised `size` may hold.
SizeChoices(sz) == IF sz = Uninitialised THEN 0..MaxUninit ELSE {sz[1]}

\* The bytes beyond the terminator of a string, whatever the memory holds.
JunkBytes == {"?", "#"}

\* apr_file_write(out, buf, &n): the n bytes found at buf.  Past the length of
\* the string lie its terminator and then bytes that are not the string's.
apr_file_write(o, buf, n, junk) ==
    o \o (IF n <= Len(buf) THEN SubSeq(buf, 1, n)
          ELSE buf \o <<NUL>> \o [k \in 1..(n - Len(buf) - 1) |-> junk])

\* The fields of one line from column c on (lines 744-768 and 797-826): the
\* column separator before every field but the first, the field encoded, and
\* `size` bytes of it written.  Gives the output, `size` and the status.
\* The f-th write from here on is the one that fails, none when f is 0; a
\* write that fails leaves the output as it was and gives the message `what`,
\* or the one of the column separator.
RECURSIVE WriteFields(_, _, _, _, _, _, _)
WriteFields(fields, c, o, sz, junk, f, what) ==
    IF c > Len(fields)
    THEN [out |-> o, size |-> sz, status |-> APR_SUCCESS, msg |-> "nothing"]
    ELSE LET sz1 == IF c > 1 THEN Len(eoc) ELSE sz
             o1 == IF c > 1 THEN apr_file_write(o, eoc, sz1, junk) ELSE o
             f1 == IF c > 1 /\ f > 0 THEN f - 1 ELSE f
             e == encode_buffer(encoding, fields[c])
             sz2 == EncodedSize(encoding, e, sz1)
         IN  IF c > 1 /\ f = 1
             THEN [out |-> o, size |-> sz1, status |-> APR_ENOSPC,
                   msg |-> "writing end of column"]
             ELSE IF e = NULLSTR
             THEN [out |-> o1, size |-> sz1, status |-> APR_EGENERAL,
                   msg |-> "encoding"]
             ELSE IF f1 = 1
             THEN [out |-> o1, size |-> sz2, status |-> APR_ENOSPC,
                   msg |-> what]
             ELSE WriteFields(fields, c + 1, apr_file_write(o1, e, sz2, junk),
                              sz2, junk, IF f1 > 0 THEN f1 - 1 ELSE f1, what)

\* Which of the n writes of a step fails: none when the output takes every
\* byte, otherwise none or any one of them.
Faults(n) == IF faulty THEN 0..n ELSE {0}

\* A write to the output or a fetch from the cursor has failed.
Fault(stmt, what) == Event("fault", stmt, <<what>>, 0, 0)


\* The row counts apr_dbd_pbquery reports.
RowCounts == 0..MaxRows \cup {ManyRows}

\* printf("%d", n) for n >= 0.
RECURSIVE Decimal(_)
Decimal(n) ==
    IF n < 10 THEN <<ToString(n)>>
    ELSE Decimal(n \div 10) \o <<ToString(n % 10)>>

\* --------------------------------------------------------------- the modes

dbdVars == <<scanVars, loopVars, args, files, fmtVars, mainVars, toolVars>>

\* db_init handing an escape run to the loop of run_select.
db_initSelectsEscape ==
    /\ pc = "db_init"
    /\ calls' = Append(calls, Call("open", 0, <<>>))
    /\ \E ok \in BOOLEAN :
          IF ok
          THEN /\ pc' = IF mode = "query" THEN "one" ELSE "loop"
               /\ UNCHANGED <<err, status>>
          ELSE /\ err' = Append(err, Message("open", <<>>, 0, 0))
               /\ status' = APR_ECONN
               /\ pc' = "exit"
    /\ UNCHANGED <<dbdVars, mode, header, noeol, argv, argp, res, end, rows, out,
                   query, size, events>>

\* db_init (lines 309-342): the driver is looked up and the connection opened.
db_init ==
    /\ pc = "db_init"
    /\ calls' = Append(calls, Call("open", 0, <<>>))
    /\ \E ok \in BOOLEAN :
          IF ok
          THEN /\ pc' = CASE mode = "query" -> "one"
                           [] mode = "escape" -> "escape"
                           [] OTHER -> "loop"
               /\ UNCHANGED <<err, status>>
          ELSE /\ err' = Append(err, Message("open", <<>>, 0, 0))
               /\ status' = APR_ECONN
               /\ pc' = "exit"
    /\ UNCHANGED <<dbdVars, mode, header, noeol, argv, argp, res, end, rows, out,
                   query, size, events>>

\* run_escape writing the column separator after every literal, the last too.
EscapeNextTrailing ==
    /\ pc = "escape"
    /\ argp < Len(argv)
    /\ argp' = argp + 1
    /\ calls' = Append(calls, Call("escape", argp + 1, argv[argp + 1]))
    /\ out' = out \o apr_dbd_escape(argv[argp + 1]) \o eoc
    /\ size' = <<Len(eoc)>>
    /\ UNCHANGED <<dbdVars, mode, header, noeol, argv, res, end, rows, query,
                   err, status, events, pc>>

\* run_escape, one turn of `while (argc--)` (lines 561-588): the literal is
\* escaped by the driver and written, and the column separator after it when
\* another literal follows.
EscapeNext ==
    /\ pc = "escape"
    /\ argp < Len(argv)
    /\ argp' = argp + 1
    /\ calls' = Append(calls, Call("escape", argp + 1, argv[argp + 1]))
    /\ \E escaped \in {TRUE} \cup {~faulty}, f \in Faults(2) :
          LET escape == apr_dbd_escape(argv[argp + 1])
              more == argp + 1 < Len(argv)
          IN  IF ~escaped
              THEN /\ status' = APR_EINVAL
                   /\ events' = Append(events, Fault(argp + 1, "escape"))
                   /\ pc' = "exit"
                   /\ UNCHANGED <<out, size, err>>
              ELSE IF f = 1
              THEN /\ err' = Append(err, Message("writing", <<>>, 0, 0))
                   /\ events' = Append(events, Fault(argp + 1, "writing"))
                   /\ status' = APR_ENOSPC
                   /\ size' = <<Len(escape)>>
                   /\ pc' = "exit"
                   /\ UNCHANGED out
              ELSE IF more /\ f = 2
              THEN /\ out' = out \o escape
                   /\ err' = Append(err, Message("writing end of column",
                                                 <<>>, 0, 0))
                   /\ events' = Append(events,
                                       Fault(argp + 1, "writing end of column"))
                   /\ status' = APR_ENOSPC
                   /\ size' = <<Len(eoc)>>
                   /\ pc' = "exit"
              ELSE /\ out' = out \o escape \o (IF more THEN eoc ELSE <<>>)
                   /\ size' = <<IF more THEN Len(eoc) ELSE Len(escape)>>
                   /\ UNCHANGED <<err, events, status, pc>>
    /\ UNCHANGED <<dbdVars, mode, header, noeol, argv, res, end, rows, query>>

\* run_escape after its loop (lines 590-601): the closing line separator, and
\* the status of the last write, or of db_init, returned.
EscapeEol ==
    /\ pc = "escape"
    /\ argp = Len(argv)
    /\ \E f \in Faults(1) :
          IF ~noeol /\ f = 1
          THEN /\ err' = Append(err, Message("writing end of line", <<>>, 0, 0))
               /\ events' = Append(events, Fault(argp, "writing end of line"))
               /\ status' = APR_ENOSPC
               /\ size' = <<Len(eol)>>
               /\ UNCHANGED out
          ELSE /\ out' = IF noeol THEN out ELSE out \o eol
               /\ size' = IF noeol THEN size ELSE <<Len(eol)>>
               /\ UNCHANGED <<err, events, status>>
    /\ pc' = "exit"
    /\ UNCHANGED <<dbdVars, mode, header, noeol, argv, argp, calls, res, end,
                   rows, query>>

\* run_select, `while (argc--)` and the statement of this turn (lines 710-719).
SelectNext ==
    /\ pc = "loop"
    /\ IF argp < Len(argv)
       THEN /\ argp' = argp + 1
            /\ IF mode = "table"
               THEN /\ query' = SelectAllFrom(apr_dbd_escape(argv[argp + 1]))
                    /\ calls' = Append(calls, Call("escape", argp + 1,
                                                   argv[argp + 1]))
               ELSE /\ query' = argv[argp + 1]
                    /\ UNCHANGED calls
            /\ pc' = "prepare"
       ELSE /\ pc' = "eol"
            /\ UNCHANGED <<argp, query, calls>>
    /\ UNCHANGED <<dbdVars, mode, header, noeol, argv, res, end, rows, out, err,
                   status, size, events>>

\* run_query taking the first statement when several are given.
QueryOneFirst ==
    /\ pc = "one"
    /\ IF Len(argv) >= 1
       THEN /\ argp' = 1
            /\ query' = argv[1]
            /\ pc' = "prepare"
            /\ UNCHANGED <<err, status>>
       ELSE /\ err' = Append(err, Message("one query", <<>>, 1, Len(argv)))
            /\ status' = APR_EOF
            /\ pc' = "exit"
            /\ UNCHANGED <<argp, query>>
    /\ UNCHANGED <<dbdVars, mode, header, noeol, argv, calls, res, end, rows, out,
                   size, events>>

\* run_query, `if (argc == 1)` (lines 629-632 and 656-661).
QueryOne ==
    /\ pc = "one"
    /\ IF Len(argv) = 1
       THEN /\ argp' = 1
            /\ query' = argv[1]
            /\ pc' = "prepare"
            /\ UNCHANGED <<err, status>>
       ELSE /\ err' = Append(err, Message("one query", <<>>, 1, Len(argv)))
            /\ status' = APR_EOF
            /\ pc' = "exit"
            /\ UNCHANGED <<argp, query>>
    /\ UNCHANGED <<dbdVars, mode, header, noeol, argv, calls, res, end, rows, out,
                   size, events>>

\* apr_dbd_prepare (lines 634-639 and 721-726).
Prepare ==
    /\ pc = "prepare"
    /\ calls' = Append(calls, Call("prepare", argp, query))
    /\ \E ok \in BOOLEAN :
          IF ok
          THEN /\ pc' = "scan"
               /\ UNCHANGED <<err, status>>
          ELSE /\ err' = Append(err, Message("prepare", query, 0, 0))
               /\ status' = APR_EPREPARE
               /\ pc' = "exit"
    /\ UNCHANGED <<dbdVars, mode, header, noeol, argv, argp, res, end, rows, out,
                   query, size, events>>

\* apr_dbd_pbselect (lines 733-738): a cursor of some columns and rows.
ExecuteSelect ==
    /\ pc = "bound"
    /\ mode \in {"select", "table"}
    /\ calls' = Append(calls, Call("pbselect", argp, query))
    /\ \/ /\ err' = Append(err, Message("select", query, 0, 0))
          /\ status' = APR_EEXEC
          /\ pc' = "exit"
          /\ UNCHANGED <<res, events>>
       \/ /\ \E c \in 1..MaxCols, n \in 0..MaxRows :
                /\ res' = [cols |-> c, rows |-> n, open |-> TRUE]
                /\ events' = Append(events, Event("cursor", argp, <<>>, c, n))
          /\ pc' = IF header THEN "header" ELSE "rows"
          /\ UNCHANGED <<err, status>>
    /\ UNCHANGED <<dbdVars, mode, header, noeol, argv, argp, end, rows, out, query,
                   size>>

\* `if (header)`: the column names of this statement's cursor (lines 740-769).
WriteHeader ==
    /\ pc = "header"
    /\ \E sz \in SizeChoices(size), junk \in JunkBytes,
          f \in Faults(2 * res.cols - 1) :
          LET names == [c \in 1..res.cols |-> ColumnName(c)]
              w == WriteFields(names, 1, out, sz, junk, f, "writing header")
              ev == Append(events, Event("header", argp, names, 0, 0))
          IN  /\ out' = w.out
              /\ size' = <<w.size>>
              /\ IF w.status = APR_SUCCESS
                 THEN /\ end' = (end \/ res.cols > 0)
                      /\ events' = ev
                      /\ pc' = "rows"
                      /\ UNCHANGED <<status, err>>
                 ELSE /\ status' = w.status
                      /\ err' = Append(err, Message(w.msg, query, 0, 0))
                      /\ events' = IF w.status = APR_ENOSPC
                                    THEN Append(ev, Fault(argp, w.msg)) ELSE ev
                      /\ pc' = "exit"
                      /\ UNCHANGED end
    /\ UNCHANGED <<dbdVars, mode, header, noeol, argv, argp, calls, res, rows,
                   query>>

\* One turn of the row loop (lines 772-828), or its end when no row is left.
FetchRow ==
    /\ pc = "rows"
    /\ calls' = Append(calls, Call("get_row", argp, query))
    /\ \E fetched \in {TRUE} \cup {~faulty} :
       IF ~fetched
       THEN /\ err' = Append(err, Message("reading row", query, 0, 0))
            /\ events' = Append(events, Fault(argp, "reading row"))
            /\ status' = APR_EFETCH
            /\ pc' = "exit"
            /\ UNCHANGED <<out, end, size, res>>
       ELSE IF res.rows = 0
       THEN /\ pc' = "loop"
            /\ res' = NoCursor
            /\ UNCHANGED <<out, end, size, events, status, err>>
       ELSE \E sz \in (IF end THEN {Len(eol)} ELSE SizeChoices(size)),
               junk \in JunkBytes,
               f \in Faults((IF end THEN 1 ELSE 0) + 2 * res.cols - 1) :
               LET entries == [c \in 1..res.cols |-> Entry(res.rows, c)]
                   o1 == IF end THEN apr_file_write(out, eol, sz, junk) ELSE out
                   f1 == IF end /\ f > 0 THEN f - 1 ELSE f
                   w == IF end /\ f = 1
                        THEN [out |-> out, size |-> sz, status |-> APR_ENOSPC,
                              msg |-> "writing end of line"]
                        ELSE WriteFields(entries, 1, o1, sz, junk, f1,
                                         "writing entry")
                   ev == IF end /\ f = 1 THEN events
                         ELSE Append(events, Event("row", argp, entries, 0, 0))
               IN  /\ out' = w.out
                   /\ size' = <<w.size>>
                   /\ res' = [res EXCEPT !.rows = @ - 1]
                   /\ IF w.status = APR_SUCCESS
                      THEN /\ end' = TRUE
                           /\ events' = ev
                           /\ UNCHANGED <<pc, status, err>>
                      ELSE /\ status' = w.status
                           /\ err' = Append(err, Message(w.msg, query, 0, 0))
                           /\ events' = IF w.status = APR_ENOSPC
                                         THEN Append(ev, Fault(argp, w.msg))
                                         ELSE ev
                           /\ pc' = "exit"
                           /\ UNCHANGED end
    /\ UNCHANGED <<dbdVars, mode, header, noeol, argv, argp, rows, query>>

\* apr_dbd_pbquery and the count printed (lines 646-653); what apr_file_printf
\* returns is not looked at, so a count that could not be written goes unseen.
ExecuteQuery ==
    /\ pc = "bound"
    /\ mode = "query"
    /\ calls' = Append(calls, Call("pbquery", argp, query))
    /\ \/ /\ err' = Append(err, Message("query", query, 0, 0))
          /\ status' = APR_EEXEC
          /\ pc' = "exit"
          /\ UNCHANGED <<rows, out, events>>
       \/ /\ \E n \in RowCounts, f \in Faults(1) :
                /\ rows' = n
                /\ out' = IF f = 1 THEN out ELSE out \o Decimal(n)
                /\ events' = IF f = 1
                              THEN Append(events, Fault(argp, "writing count"))
                              ELSE events
          /\ pc' = "eol"
          /\ UNCHANGED <<err, status>>
    /\ UNCHANGED <<dbdVars, mode, header, noeol, argv, argp, res, end, query,
                   size>>

\* The closing line separator written whatever --no-end-of-line says.
FinalEolAlways ==
    /\ pc = "eol"
    /\ out' = out \o eol
    /\ size' = <<Len(eol)>>
    /\ status' = IF mode = "query" /\ rows = 0 THEN APR_EOF ELSE APR_SUCCESS
    /\ pc' = "exit"
    /\ UNCHANGED <<dbdVars, mode, header, noeol, argv, argp, calls, res, end,
                   rows, query, err, events>>

\* Every mode returning APR_SUCCESS at its end, whatever the row count.
FinalEolSuccess ==
    /\ pc = "eol"
    /\ out' = IF noeol THEN out ELSE out \o eol
    /\ size' = IF noeol THEN size ELSE <<Len(eol)>>
    /\ status' = APR_SUCCESS
    /\ pc' = "exit"
    /\ UNCHANGED <<dbdVars, mode, header, noeol, argv, argp, calls, res, end,
                   rows, query, err, events>>

\* run_select returning APR_EOF when it has written no row.
FinalEolNoData ==
    /\ pc = "eol"
    /\ out' = IF noeol THEN out ELSE out \o eol
    /\ size' = IF noeol THEN size ELSE <<Len(eol)>>
    /\ status' = IF (mode = "query" /\ rows = 0)
                     \/ (mode # "query"
                         /\ \A k \in DOMAIN events : events[k].kind # "row")
                  THEN APR_EOF ELSE APR_SUCCESS
    /\ pc' = "exit"
    /\ UNCHANGED <<dbdVars, mode, header, noeol, argv, argp, calls, res, end,
                   rows, query, err, events>>

\* The closing line separator written only after a line of fields.
FinalEolAfterLine ==
    /\ pc = "eol"
    /\ out' = IF noeol \/ (mode # "query" /\ ~end) THEN out ELSE out \o eol
    /\ size' = IF noeol \/ (mode # "query" /\ ~end) THEN size ELSE <<Len(eol)>>
    /\ status' = IF mode = "query" /\ rows = 0 THEN APR_EOF ELSE APR_SUCCESS
    /\ pc' = "exit"
    /\ UNCHANGED <<dbdVars, mode, header, noeol, argv, argp, calls, res, end,
                   rows, query, err, events>>

\* The closing line separator and the status returned (lines 663-680, 832-844).
FinalEol ==
    /\ pc = "eol"
    /\ \E f \in Faults(1) :
          IF ~noeol /\ f = 1
          THEN /\ err' = Append(err, Message("writing end of line", query, 0, 0))
               /\ events' = Append(events, Fault(argp, "writing end of line"))
               /\ status' = APR_ENOSPC
               /\ size' = <<Len(eol)>>
               /\ UNCHANGED out
          ELSE /\ out' = IF noeol THEN out ELSE out \o eol
               /\ size' = IF noeol THEN size ELSE <<Len(eol)>>
               /\ status' = IF mode = "query" /\ rows = 0
                             THEN APR_EOF ELSE APR_SUCCESS
               /\ UNCHANGED <<err, events>>
    /\ pc' = "exit"
    /\ UNCHANGED <<dbdVars, mode, header, noeol, argv, argp, calls, res, end,
                   rows, query>>

\* An exit status of 1 for every failure.
ExitOneOnFailure ==
    /\ pc = "exit"
    /\ exitcode' = IF status = APR_SUCCESS THEN 0 ELSE 1
    /\ pc' = "done"
    /\ UNCHANGED <<scanVars, loopVars, args, files, fmtVars, toolVars, fds,
                   opens, mode, header, noeol, argv, argp, calls, res, end, rows,
                   out, query, err, status, size, events>>

\* main, after the mode function has returned (lines 1041-1052).
Exit ==
    /\ pc = "exit"
    /\ exitcode' = CASE status = APR_SUCCESS -> 0
                      [] status = APR_EINVAL -> 1
                      [] OTHER -> 2
    /\ pc' = "done"
    /\ UNCHANGED <<scanVars, loopVars, args, files, fmtVars, toolVars, fds,
                   opens, mode, header, noeol, argv, argp, calls, res, end, rows,
                   out, query, err, status, size, events>>

\* ------------------------------------------------------------------ a run

\* The positional statements a run is given.
Statements == { <<"x">>, <<"%", "s">>, <<"%", "p", "D", "b">> }

StatementLists == UNION {[1..n -> Statements] : n \in 0..MaxStmts}

\* main has read its options: a mode, the sources, the positional arguments.
Init ==
    /\ InitCommon
    /\ pc = "db_init"
    /\ mode \in {"select", "table", "query"}
    /\ header \in BOOLEAN
    /\ noeol \in BOOLEAN
    /\ DefaultFormat
    /\ NoFilesByName
    /\ NoFaults
    /\ argv \in StatementLists
    /\ args \in ArgLists
    /\ files = [h \in {1} |-> SmallFile]
    /\ query = <<>>

Next ==
    \/ db_init
    \/ SelectNext
    \/ QueryOne
    \/ Prepare
    \/ dbd_arguments
    \/ ExecuteSelect
    \/ WriteHeader
    \/ FetchRow
    \/ ExecuteQuery
    \/ FinalEol
    \/ Exit

Spec == Init /\ [][Next]_vars

\* ------------------------------------------- a run with formatting options

\* The names given to --encoding.
Encodings == {"echo", "none"}

\* The separators given to --end-of-column and --end-of-line, or their defaults.
Separators ==
    { [eoc |-> DEFAULT_END_OF_COLUMN, eol |-> DEFAULT_END_OF_LINE],
      [eoc |-> <<",", " ">>, eol |-> <<";">>] }

FormatStatements == { <<"x">>, <<"%", "s">> }

FormatStatementLists == UNION {[1..n -> FormatStatements] : n \in 0..MaxStmts}

\* main has read its options, the formatting options among them; at most one
\* argument source is registered.
InitFormat ==
    /\ InitCommon
    /\ pc = "db_init"
    /\ mode \in {"select", "query"}
    /\ header \in BOOLEAN
    /\ noeol \in BOOLEAN
    /\ encoding \in Encodings
    /\ \E sep \in Separators : eoc = sep.eoc /\ eol = sep.eol
    /\ NoFilesByName
    /\ NoFaults
    /\ argv \in FormatStatementLists
    /\ args \in {<<>>, <<Literal(<<"a">>)>>}
    /\ files = [h \in {1} |-> SmallFile]
    /\ query = <<>>

SpecFormat == InitFormat /\ [][Next]_vars

\* ------------------------------------- a run in any mode, where things fail

\* The steps of the four mode functions.
NextRun ==
    \/ Next
    \/ EscapeNext
    \/ EscapeEol

\* A name --encoding is given that encode_buffer does not know.
UnknownEncoding == "hex"

\* Positional arguments: statements, table names or literals to escape.
FaultStatements == { <<"x">>, <<"j", "'", "%", "s">> }

FaultStatementLists == UNION {[1..n -> FaultStatements] : n \in 0..MaxStmts}

\* main has read its options; the database and the output may or may not fail
\* later on, the encoding may or may not be one that exists, and at most one
\* source, a stream, is registered.
InitFaults ==
    /\ InitCommon
    /\ pc = "db_init"
    /\ mode \in {"escape", "select", "table", "query"}
    /\ header \in BOOLEAN
    /\ noeol \in BOOLEAN
    /\ encoding \in {DEFAULT_ENCODING, UnknownEncoding}
    /\ eoc = DEFAULT_END_OF_COLUMN
    /\ eol = DEFAULT_END_OF_LINE
    /\ NoFilesByName
    /\ faulty \in BOOLEAN
    /\ argv \in FaultStatementLists
    /\ args \in {<<>>, <<Stream(1)>>}
    /\ files = [h \in {1} |-> SmallFile]
    /\ query = <<>>

SpecFaults == InitFaults /\ [][NextRun]_vars

\* ------------------------------------------------- main, from the options on

\* What the option loop left: whether --escape, --query, --select and --table
\* were given, and whether a driver and connection parameters are known, from
\* the options or from the environment.
ModeOptions ==
    [escape : BOOLEAN, query : BOOLEAN, select : BOOLEAN, table : BOOLEAN,
     driver : BOOLEAN, params : BOOLEAN]

dispatchVars == <<scanVars, loopVars, fmtVars, toolVars, args, files, fds, opens,
                  header, noeol, argv, argp, calls, res, end, rows, out, query,
                  size, events, status>>

\* main choosing --query before --table and --select.
DispatchQueryFirst ==
    /\ pc = "parsed"
    /\ IF ~opts.driver \/ ~opts.params
          \/ ~(opts.escape \/ opts.table \/ opts.select \/ opts.query)
       THEN /\ err' = Append(err, Message("usage", <<>>, 0, 0))
            /\ exitcode' = 1
            /\ pc' = "done"
            /\ UNCHANGED mode
       ELSE /\ mode' = CASE opts.escape -> "escape"
                          [] opts.query -> "query"
                          [] opts.table -> "table"
                          [] OTHER -> "select"
            /\ pc' = "db_init"
            /\ UNCHANGED <<err, exitcode>>
    /\ UNCHANGED dispatchVars

\* main after the option loop (lines 1003-1039): without a driver, without
\* parameters or without a mode the usage is printed and EXIT_FAILURE returned;
\* otherwise one mode function is called, run_select with `table` deciding
\* whether the statement is made up from a table name (lines 713-719).
Dispatch ==
    /\ pc = "parsed"
    /\ IF ~opts.driver
       THEN /\ err' = Append(err, Message("driver", <<>>, 0, 0))
            /\ exitcode' = 1
            /\ pc' = "done"
            /\ UNCHANGED mode
       ELSE IF ~opts.params
       THEN /\ err' = Append(err, Message("params", <<>>, 0, 0))
            /\ exitcode' = 1
            /\ pc' = "done"
            /\ UNCHANGED mode
       ELSE IF opts.escape
       THEN /\ mode' = "escape"
            /\ pc' = "db_init"
            /\ UNCHANGED <<err, exitcode>>
       ELSE IF opts.table \/ opts.select
       THEN /\ mode' = IF opts.table THEN "table" ELSE "select"
            /\ pc' = "db_init"
            /\ UNCHANGED <<err, exitcode>>
       ELSE IF opts.query
       THEN /\ mode' = "query"
            /\ pc' = "db_init"
            /\ UNCHANGED <<err, exitcode>>
       ELSE /\ err' = Append(err, Message("mode", <<>>, 0, 0))
            /\ exitcode' = 1
            /\ pc' = "done"
            /\ UNCHANGED mode
    /\ UNCHANGED dispatchVars

NextMain ==
    \/ Dispatch
    \/ NextRun

\* main has read its options (lines 894-998): any of the mode options, with or
\* without a driver and parameters, and the positional arguments.
InitMain ==
    /\ InitCommon
    /\ DefaultFormat
    /\ NoFaults
    /\ pc = "parsed"
    /\ mode = "none"
    /\ opts \in ModeOptions
    /\ header \in BOOLEAN
    /\ noeol = FALSE
    /\ argv \in FormatStatementLists
    /\ args \in {<<>>, <<Literal(<<"a">>)>>}
    /\ files = [h \in {1} |-> SmallFile]
    /\ fds = {}
    /\ opens = <<>>
    /\ query = <<>>

SpecMain == InitMain /\ [][NextMain]_vars

\* ------------------------------------------------ what the claims speak of

\* The number of `%` that stand directly before position k.
RECURSIVE PercentsBefore(_, _)
PercentsBefore(s, k) ==
    IF k > 1 /\ s[k - 1] = "%" THEN 1 + PercentsBefore(s, k - 1) ELSE 0

\* The places of a statement where a parameter starts: a `%` before a letter that
\* is not the second half of a `%%` pair, pairs being taken from the left.
ParamPositions(s) ==
    {k \in 1..Len(s) : /\ s[k] = "%"
                       /\ apr_isalpha(At(s, k + 1))
                       /\ PercentsBefore(s, k) % 2 = 0}

\* The place of the n-th parameter.
NthPosition(s, n) ==
    CHOOSE k \in ParamPositions(s) :
        Cardinality({x \in ParamPositions(s) : x < k}) = n - 1

\* The pattern table of the scanner's contract.
PatternTable ==
    { [pat |-> <<"d">>, type |-> "INT"], [pat |-> <<"u">>, type |-> "UINT"],
      [pat |-> <<"f">>, type |-> "FLOAT"],
      [pat |-> <<"h", "h", "d">>, type |-> "TINY"],
      [pat |-> <<"h", "h", "u">>, type |-> "UTINY"],
      [pat |-> <<"h", "d">>, type |-> "SHORT"],
      [pat |-> <<"h", "u">>, type |-> "USHORT"],
      [pat |-> <<"l", "l", "d">>, type |-> "LONGLONG"],
      [pat |-> <<"l", "l", "u">>, type |-> "ULONGLONG"],
      [pat |-> <<"l", "d">>, type |-> "LONG"],
      [pat |-> <<"l", "u">>, type |-> "ULONG"],
      [pat |-> <<"l", "f">>, type |-> "DOUBLE"],
      [pat |-> <<"p", "D", "t">>, type |-> "TEXT"],
      [pat |-> <<"p", "D", "i">>, type |-> "TIME"],
      [pat |-> <<"p", "D", "d">>, type |-> "DATE"],
      [pat |-> <<"p", "D", "a">>, type |-> "DATETIME"],
      [pat |-> <<"p", "D", "s">>, type |-> "TIMESTAMP"],
      [pat |-> <<"p", "D", "z">>, type |-> "ZTIMESTAMP"],
      [pat |-> <<"p", "D", "b">>, type |-> "BLOB"],
      [pat |-> <<"p", "D", "c">>, type |-> "CLOB"],
      [pat |-> <<"p", "D", "n">>, type |-> "NULL"] }

\* The type the table gives the parameter at place k: the longest pattern that
\* follows the `%`, and text when none does.
TableType(s, k) ==
    LET fits == {p \in PatternTable :
                    \A c \in 1..Len(p.pat) : At(s, k + c) = p.pat[c]}
    IN  IF fits = {} THEN "STRING"
        ELSE (CHOOSE p \in fits : \A o \in fits : Len(o.pat) <= Len(p.pat)).type

\* STRING and TEXT are both the table's text.
Kind(ty) == IF ty \in {"STRING", "TEXT"} THEN "text" ELSE ty

\* The slots the contract gives a parameter of type ty.
SlotsOf(ty) == IF ty \in {"BLOB", "CLOB"} THEN 3 ELSE 1

\* The slots of the first n parameters together.
RECURSIVE SlotsBefore(_, _)
SlotsBefore(s, n) ==
    IF n = 0 THEN 0
    ELSE SlotsBefore(s, n - 1) + SlotsOf(TableType(s, NthPosition(s, n)))

Scanned == mode = "arguments" /\ pc # "scan"

Last(sq) == sq[Len(sq)]

\* C1: the number of parameters the scanner reports, the one compared with the
\* number of argument sources, is the number of `%` directly before a letter that
\* are not the second half of a `%%` pair.
C1_CountIsParameterCount ==
    Scanned =>
        /\ nargs = Cardinality(ParamPositions(query))
        /\ pc \in {"resolve", "bound"} =>
              Len(args) = Cardinality(ParamPositions(query))
        /\ (pc = "exit" /\ err # <<>> /\ Last(err).msg = "expects") =>
              /\ Last(err).a = Cardinality(ParamPositions(query))
              /\ Last(err).b # Last(err).a

\* C1 witness: a statement with an escaped percent before a letter and a real
\* parameter has been scanned and bound.
C1_Witness ==
    /\ mode = "arguments"
    /\ pc = "bound"
    /\ nargs >= 1
    /\ \E k \in 1..Len(query) :
          /\ query[k] = "%"
          /\ At(query, k + 1) = "%"
          /\ apr_isalpha(At(query, k + 2))
          /\ PercentsBefore(query, k) % 2 = 0

\* C2: what follows a `%%` pair is no parameter: the scanner classifies only
\* places where a parameter starts, counts only those, and a statement without
\* parameters gets no bind slot.
C2_EscapedPercentYieldsNothing ==
    Scanned =>
        /\ nargs = Cardinality(ParamPositions(query))
        /\ \A w \in 1..Len(twrites) : twrites[w].q \in ParamPositions(query)
        /\ ParamPositions(query) = {} => nvals = 0

\* C3: the type recorded for the n-th parameter is the type the pattern table
\* gives the n-th parameter token.
C3_TypeOfEachParameter ==
    Scanned =>
        \A n \in 1..Len(t) :
            n <= Cardinality(ParamPositions(query)) =>
                Kind(t[n]) = Kind(TableType(query, NthPosition(query, n)))

\* A statement without `%%`.
EscapeFree(s) == \A k \in 1..Len(s) : ~(s[k] = "%" /\ At(s, k + 1) = "%")

\* The classifications of the second loop that left blob or clob as the type.
BlobClassifications ==
    {w \in 1..Len(twrites) :
        twrites[w].type \in {APR_DBD_TYPE_BLOB, APR_DBD_TYPE_CLOB}}

C6_MismatchReadsNothing ==
    [][ /\ pc = "scan" => (args' = args /\ files' = files)
        /\ (pc = "check" /\ Len(args) # Cardinality(ParamPositions(query))) =>
              /\ pc' = "exit"
              /\ status' = APR_EINVAL
              /\ err' = Append(err, Message("expects", query,
                                  Cardinality(ParamPositions(query)), Len(args)))
              /\ args' = args
              /\ files' = files ]_vars

\* C6 witness: the count check has failed with a stream source registered and its
\* file unread.
C6_Witness ==
    /\ mode = "arguments"
    /\ pc = "exit"
    /\ err # <<>>
    /\ Last(err).msg = "expects"
    /\ \E k \in 1..Len(args) :
          /\ args[k].fd # 0
          /\ files[args[k].fd].pos = 0
          /\ files[args[k].fd].content # <<>>

\* C8: every blob or clob parameter has in its own slots the value, then the
\* length, then an empty slot, and every other parameter has its value in its own
\* slot, the slots following one another in argument order (stated for the
\* statements without `%%`).
C8_SlotLayout ==
    (mode = "arguments" /\ pc = "bound" /\ EscapeFree(query)) =>
        \A n \in 1..Cardinality(ParamPositions(query)) :
            LET base == SlotsBefore(query, n - 1)
                ty == TableType(query, NthPosition(query, n))
            IN  IF ty \in {"BLOB", "CLOB"}
                THEN /\ base + 3 <= Len(vals)
                     /\ vals[base + 1] = DecodedSlot(n)
                     /\ vals[base + 2] = SizeSlot(n)
                     /\ vals[base + 3] = NullSlot
                ELSE /\ base + 1 <= Len(vals)
                     /\ vals[base + 1] = DecodedSlot(n)

\* C9: resolving a stream source yields exactly the bytes from the file's
\* position to its end and leaves the position at the end, so that a later
\* resolution of the same file yields nothing.
C9_StreamDrainedOnce ==
    [][ (/\ pc = "resolve"
         /\ i < nargs /\ j < nvals
         /\ args[i + 1].encoded = NULLSTR
         /\ args[i + 1].fd # 0
         /\ pc' = "resolve") =>
            LET h == args[i + 1].fd
                f == files[h]
            IN  /\ args'[i + 1].decoded = SubSeq(f.content, f.pos + 1,
                                                 Len(f.content))
                /\ args'[i + 1].size = Len(f.content) - f.pos
                /\ args'[i + 1].status = APR_EOF
                /\ files'[h].pos = Len(f.content)
                /\ files'[h].content = f.content
                /\ (f.pos = Len(f.content) => args'[i + 1].decoded = <<>>) ]_vars

\* C9 witness: a file longer than two buffer growths was drained by the first
\* source and the second source naming it got nothing.
C9_Witness ==
    /\ mode = "arguments"
    /\ pc = "bound"
    /\ Len(args) = 2
    /\ args[1].fd = 1 /\ args[2].fd = 1
    /\ args[1].size > 2 * INITIAL_LEN
    /\ args[1].decoded = files[1].content
    /\ args[2].status = APR_EOF
    /\ args[2].size = 0
    /\ args[2].decoded = <<>>

\* ----------------------------------------------------- claims about a run

ExecOps == {"pbselect", "pbquery"}

\* The count check of dbd_arguments has failed.
MismatchDetected ==
    pc = "exit" /\ err # <<>> /\ Last(err).msg = "expects"

\* run_query was given no statement or several.
WrongStatementCount ==
    pc = "exit" /\ err # <<>> /\ Last(err).msg = "one query"

\* C5 as stated: when the number of sources differs from the number of
\* parameters, no call has reached the driver.
C5_NoDriverCallAsStated ==
    (mode # "arguments" /\ MismatchDetected) => calls = <<>>

\* C5 as amended: no statement whose number of parameters differs from the number
\* of sources is ever executed; when the difference is found the run fails with
\* APR_EINVAL, the last call made being the prepare of that statement, after the
\* open of the connection and the calls of the statements before it.
C5_NoExecuteOnMismatch ==
    mode # "arguments" =>
        /\ \A c \in 1..Len(calls) :
              calls[c].op \in ExecOps =>
                  Cardinality(ParamPositions(calls[c].query)) = Len(args)
        /\ MismatchDetected =>
              /\ status = APR_EINVAL
              /\ Cardinality(ParamPositions(query)) # Len(args)
              /\ calls[1].op = "open"
              /\ Last(calls) = Call("prepare", argp, query)
              /\ \A c \in 1..Len(calls) :
                    calls[c].op \in ExecOps => calls[c].stmt < argp

\* C5 witness: the difference was found in the second statement of a select run,
\* after the first was executed.
C5_Witness ==
    /\ mode = "select"
    /\ MismatchDetected
    /\ argp = 2
    /\ \E c \in 1..Len(calls) : calls[c].op = "pbselect" /\ calls[c].stmt = 1

\* C7 as stated: when a count mismatch or a wrong number of statements is
\* detected, nothing has been written to the output.
C7_NothingEmittedAsStated ==
    (mode # "arguments" /\ (MismatchDetected \/ WrongStatementCount)) =>
        out = <<>>

\* C7 as amended: a wrong number of statements, and a count mismatch in query
\* mode or in the first statement of a select or table run, leave the output
\* empty; a mismatch in a later statement is detected without writing anything
\* more, after the lines of the earlier statements.
C7_NothingEmitted ==
    /\ [](mode # "arguments" =>
            /\ WrongStatementCount => out = <<>>
            /\ (MismatchDetected /\ (mode = "query" \/ argp <= 1)) =>
                  out = <<>>)
    /\ [][ mode # "arguments" =>
            /\ (pc \in {"scan", "check"} /\ pc' \in {"check", "exit"}) =>
                  out' = out
            /\ pc = "exit" => out' = out ]_vars

\* C7 witness: a mismatch was detected in the second statement of a select run
\* whose first statement had written a row.
C7_Witness ==
    /\ mode = "select"
    /\ MismatchDetected
    /\ argp = 2
    /\ out # <<>>

\* C10: every resolution of a literal source yields the literal's bytes and their
\* number, and changes nothing else: not the literal, not another source, no file,
\* no output; and no step of a run changes a literal.
C10_LiteralResolvesSame ==
    [][ /\ \A k \in 1..Len(args) : args'[k].encoded = args[k].encoded
        /\ (/\ pc = "resolve"
            /\ i < nargs /\ j < nvals
            /\ args[i + 1].encoded # NULLSTR) =>
              /\ args'[i + 1].decoded = args[i + 1].encoded
              /\ args'[i + 1].size = Len(args[i + 1].encoded)
              /\ \A k \in 1..Len(args) : k # i + 1 => args'[k] = args[k]
              /\ files' = files
              /\ out' = out
              /\ calls' = calls ]_vars

\* C10 witness: the second statement of a select run has resolved the literal
\* that the first statement resolved before.
C10_Witness ==
    /\ mode = "select"
    /\ argp = 2
    /\ pc = "bound"
    /\ Len(args) = 1
    /\ args[1].encoded = <<"a">>
    /\ args[1].decoded = <<"a">>
    /\ args[1].size = 1
    /\ \E c \in 1..Len(calls) : calls[c].op = "pbselect" /\ calls[c].stmt = 1

\* ------------------------------------------- claims about the file arguments

\* The --file-argument options read so far: which argument, which name.
FileEvents == {k \in DOMAIN events : events[k].kind = "file"}

\* C11: each distinct file name is opened at most once in a run, all the
\* sources naming it hold one and the same handle, and all the sources naming
\* `-` hold the handle of standard input, which is never opened by name.
C11_FileOpenedOnce ==
    /\ \A a, b \in DOMAIN opens : opens[a] = opens[b] => a = b
    /\ \A a \in DOMAIN opens : opens[a] # <<"-">>
    /\ \A a, b \in FileEvents :
          events[a].fields = events[b].fields =>
              /\ args[events[a].stmt].fd = args[events[b].stmt].fd
              /\ args[events[a].stmt].fd # 0
    /\ \A a \in FileEvents :
          events[a].fields = <<"-">> => args[events[a].stmt].fd = StdinHandle

\* The options named one file twice and standard input twice.
C11_Witness ==
    /\ pc = "parsed"
    /\ \E a, b \in FileEvents :
          a # b /\ events[a].fields = <<"a">> /\ events[b].fields = <<"a">>
    /\ \E a, b \in FileEvents :
          a # b /\ events[a].fields = <<"-">> /\ events[b].fields = <<"-">>

\* --------------------------------------------------- claims about the output

\* A line as the specification describes it: the fields, each in its encoded
\* form and whole, joined by the column separator.
RECURSIVE LineOf(_)
LineOf(fields) ==
    IF fields = <<>> THEN <<>>
    ELSE encode_buffer(encoding, Head(fields))
         \o (IF Len(fields) > 1 THEN eoc \o LineOf(Tail(fields)) ELSE <<>>)

\* Lines with one line separator between every two of them.
RECURSIVE JoinLines(_)
JoinLines(lines) ==
    IF lines = <<>> THEN <<>>
    ELSE LineOf(Head(lines))
         \o (IF Len(lines) > 1 THEN eol \o JoinLines(Tail(lines)) ELSE <<>>)

\* The closing line separator, unless --no-end-of-line.
Closing == IF noeol THEN <<>> ELSE eol

\* The fields of the lines written so far, in the order they were written.
RECURSIVE FieldsOf(_)
FieldsOf(evs) ==
    IF evs = <<>> THEN <<>>
    ELSE (IF Head(evs).kind \in {"header", "row"}
          THEN <<Head(evs).fields>> ELSE <<>>) \o FieldsOf(Tail(evs))

\* The header and the rows of a cursor of c columns and n rows, in cursor order.
CursorLines(c, n) ==
    <<[k \in 1..c |-> ColumnName(k)]>>
    \o [r \in 1..n |-> [k \in 1..c |-> Entry(n - r + 1, k)]]

\* A select or table run that ran to its end without a failure.
SelectCompleted ==
    mode \in {"select", "table"} /\ pc = "done" /\ status = APR_SUCCESS

\* C12: a single statement returning N rows of C columns, with --header, gives
\* the header line and the N row lines in cursor order, the fields of a line
\* joined by the column separator, one line separator after every line, the
\* last one left out under --no-end-of-line.
C12_HeaderAndRows ==
    (SelectCompleted /\ header /\ Len(argv) = 1) =>
        out = JoinLines(CursorLines(events[1].cols, events[1].rows)) \o Closing

\* C13: in a select or table run every two consecutive lines written, header
\* lines and row lines alike and across statements, have exactly one line
\* separator between them, and none stands before the first line.  (Stated for
\* the default encoding.)
C13_OneSeparatorBetweenLines ==
    (SelectCompleted /\ encoding = DEFAULT_ENCODING) =>
        out = JoinLines(FieldsOf(events)) \o Closing

\* C14: with --header and several statements the header line is written at
\* most once, and before the first row.
C14_HeaderAtMostOnce ==
    (mode \in {"select", "table"} /\ header) =>
        /\ \A a, b \in DOMAIN events :
              (events[a].kind = "header" /\ events[b].kind = "header") => a = b
        /\ \A a, b \in DOMAIN events :
              (events[a].kind = "header" /\ events[b].kind = "row") => a < b

\* C15: under --encoding none every column value reaches the output byte for
\* byte and whole, in every column and every row.  (Stated for runs without
\* --header, where only rows are written.)
C15_NonePassesThrough ==
    (SelectCompleted /\ encoding = "none" /\ ~header) =>
        out = JoinLines(FieldsOf(events)) \o Closing

\* ------------------------------------- claims about modify-query and the exit

\* A count in decimal digits.
DecimalDigits == <<"0", "1", "2", "3", "4", "5", "6", "7", "8", "9">>

RECURSIVE DecimalText(_)
DecimalText(n) ==
    IF n < 10 THEN <<DecimalDigits[n + 1]>>
    ELSE DecimalText(n \div 10) \o <<DecimalDigits[(n % 10) + 1]>>

\* The statement of a modify-query run was executed by the driver and the run
\* has returned.
QueryExecuted ==
    /\ mode = "query"
    /\ pc \in {"exit", "done"}
    /\ calls # <<>>
    /\ Last(calls).op = "pbquery"
    /\ status # APR_EEXEC

\* The kind of the failure reported on stderr, if any.
Reported == IF err = <<>> THEN "nothing" ELSE Last(err).msg

\* C16: in modify-query mode the output is the row count in decimal followed
\* by the line separator, or the count alone under --no-end-of-line, for every
\* count, 0 included.
C16_CountThenSeparator ==
    QueryExecuted => out = DecimalText(rows) \o Closing

\* A count of two digits was written without a closing separator.
C16_Witness ==
    QueryExecuted /\ rows = ManyRows /\ noeol /\ out = DecimalText(ManyRows)

\* C17: a modify-query run reports success when the count is greater than 0 and
\* the end-of-result status when it is not; the count is in the output by then.
C17_SuccessOrEmptyResult ==
    QueryExecuted =>
        /\ status = (IF rows > 0 THEN APR_SUCCESS ELSE APR_EOF)
        /\ Len(out) >= Len(DecimalText(rows))
        /\ SubSeq(out, 1, Len(DecimalText(rows))) = DecimalText(rows)

\* No row was affected: `0` is written and the end-of-result status reported.
C17_Witness ==
    /\ QueryExecuted
    /\ rows = 0
    /\ status = APR_EOF
    /\ out = <<"0">> \o eol

\* C18: in modify-query mode with no statement or with several, no statement is
\* prepared or executed, nothing is written to the output, and the run fails.
C18_NotExactlyOneStatement ==
    (mode = "query" /\ Len(argv) # 1) =>
        /\ \A c \in DOMAIN calls : calls[c].op = "open"
        /\ out = <<>>
        /\ pc \in {"exit", "done"} => status # APR_SUCCESS
        /\ pc = "done" => exitcode # 0

\* Two statements were given to modify-query mode and the run has failed on
\* their number.
C18_Witness ==
    /\ mode = "query"
    /\ Len(argv) = 2
    /\ pc = "done"
    /\ Reported = "one query"

\* C19 as stated: exit status 0 for success, 1 for an argument-count mismatch
\* or a wrong number of statements, 2 for every other failure.
C19_ExitStatusAsStated ==
    pc = "done" =>
        exitcode = (IF status = APR_SUCCESS THEN 0
                    ELSE IF Reported \in {"expects", "one query"} THEN 1
                    ELSE 2)

\* C19 as amended: exit status 0 for success, 1 for the invalid-argument status,
\* which stands for an argument-count mismatch and for a stream argument that
\* could not be read, 2 for everything else: a wrong number of statements in
\* modify-query mode, a modify-query that affected no row, a failure of the
\* driver.
C19_ExitStatus ==
    pc = "done" =>
        /\ exitcode = (IF status = APR_SUCCESS THEN 0
                       ELSE IF status = APR_EINVAL THEN 1
                       ELSE 2)
        /\ status = APR_EINVAL <=> Reported \in {"expects", "reading"}
        /\ Reported \in {"one query", "open", "prepare", "select", "query"} =>
              exitcode = 2
        /\ (QueryExecuted /\ rows = 0) => exitcode = 2
        /\ (mode # "query" /\ argv = <<>> /\ Reported = "nothing") =>
              exitcode = 0

\* A modify-query run given no statement has exited with status 2.
C19_Witness ==
    /\ pc = "done"
    /\ mode = "query"
    /\ argv = <<>>
    /\ Reported = "one query"
    /\ exitcode = 2

\* A select or table run that reached its end, and the rows it wrote.
SelectReturned ==
    mode \in {"select", "table"} /\ pc = "done" /\ Reported = "nothing"

RowsWritten == {k \in DOMAIN events : events[k].kind = "row"}

\* C20 as stated: a select or table run whose cursors yield no row reports the
\* end-of-result status, not success.
C20_NoDataAsStated ==
    (SelectReturned /\ RowsWritten = {}) => status = APR_EOF

\* C20 as amended: a select or table run that reaches its end reports success
\* and exits with status 0 whether or not any row was written; no row at all
\* is not told apart from rows.
C20_SelectAlwaysSuccess ==
    SelectReturned => (status = APR_SUCCESS /\ exitcode = 0)

\* A statement was executed, its cursor had no row, and the run succeeded.
C20_Witness ==
    /\ SelectReturned
    /\ RowsWritten = {}
    /\ \E k \in DOMAIN events : events[k].kind = "cursor"
    /\ status = APR_SUCCESS

\* --------------------------------------------------------------- nmbe

\* The longest command line of nmbe: so many messages.
MaxMessages == 3

\* The files there are to open by name, with their bytes.
Disk == [name \in {<<"a">>} |-> <<"d", "a", "t">>]

\* A byte that is not a printable character, by its value.
Byte(v) == "#" \o ToString(v)

\* The four bytes of an apr_uint32_t in the order of the platform, here the
\* least significant first (part_001, lines 158-163); taking each byte modulo
\* 256 keeps the low 32 bits of the length.
U32(n) ==
    <<Byte(n % 256), Byte((n \div 256) % 256),
      Byte((n \div 65536) % 256), Byte((n \div 16777216) % 256)>>

\* write_buffer (part_001, lines 154-175): the length as 32 bits, then `length`
\* bytes from buffer; bytes of the allocation nothing was read into are junk.
write_buffer(o, buffer, length, junk) ==
    o \o U32(length)
      \o [k \in 1..length |-> IF k <= Len(buffer) THEN buffer[k] ELSE junk]

\* The base64 alphabet; a character's value is its place less one.
Base64Alphabet ==
    <<"A", "B", "C", "D", "E", "F", "G", "H", "I", "J", "K", "L", "M", "N", "O",
      "P", "Q", "R", "S", "T", "U", "V", "W", "X", "Y", "Z", "a", "b", "c", "d",
      "e", "f", "g", "h", "i", "j", "k", "l", "m", "n", "o", "p", "q", "r", "s",
      "t", "u", "v", "w", "x", "y", "z", "0", "1", "2", "3", "4", "5", "6", "7",
      "8", "9", "+", "/">>

Base64Value(ch) == (CHOOSE k \in DOMAIN Base64Alphabet : Base64Alphabet[k] = ch) - 1

IsBase64(ch) == \E k \in DOMAIN Base64Alphabet : Base64Alphabet[k] = ch

\* The character of a byte value, for the letters the messages are made of.
Chr(v) ==
    CASE v = 65 -> "A"
      [] v = 72 -> "H"
      [] v = 105 -> "i"
      [] OTHER -> Byte(v)

\* The bytes of one group of two, three or four base64 characters.
DecodeGroup(g) ==
    LET a == Base64Value(g[1])
        b == Base64Value(g[2])
        c == IF Len(g) >= 3 THEN Base64Value(g[3]) ELSE 0
        d == IF Len(g) >= 4 THEN Base64Value(g[4]) ELSE 0
        bytes == <<Chr(a * 4 + b \div 16),
                   Chr((b % 16) * 16 + c \div 4),
                   Chr((c % 4) * 64 + d)>>
    IN  SubSeq(bytes, 1, Len(g) - 1)

RECURSIVE DecodeGroups(_)
DecodeGroups(s) ==
    IF s = <<>> THEN <<>>
    ELSE IF Len(s) <= 4 THEN DecodeGroup(s)
    ELSE DecodeGroup(SubSeq(s, 1, 4)) \o DecodeGroups(SubSeq(s, 5, Len(s)))

\* The text without the `=` that pads it at its end.
RECURSIVE Unpadded(_)
Unpadded(s) ==
    IF s # <<>> /\ s[Len(s)] = "=" THEN Unpadded(SubSeq(s, 1, Len(s) - 1))
    ELSE s

\* apr_pdecode_base64(pool, str, slen, APR_ENCODE_NONE, &len): the bytes the
\* text stands for, or NULL when a character is not of the alphabet or a
\* single character is left over (part_001, lines 303-309).
apr_pdecode_base64(str) ==
    LET u == Unpadded(str)
    IN  IF (\E k \in DOMAIN u : ~IsBase64(u[k])) \/ Len(u) % 4 = 1
        THEN NULLSTR
        ELSE DecodeGroups(u)

\* The read loop of --message-file (part_001, lines 262-287): the bytes go to
\* buffer + off, `size` grows by what was read, and after every full read the
\* buffer doubles and off becomes buffer + size.
RECURSIVE NmbeRead(_, _, _, _, _)
NmbeRead(f, buffer, off, len, sz) ==
    LET r == apr_file_read_full(f, len - off, FALSE)
        b == WriteAt(buffer, off, r.data)
    IN  IF r.status = APR_SUCCESS
        THEN NmbeRead([f EXCEPT !.pos = r.pos], b, sz + r.l, len * 2, sz + r.l)
        ELSE [status |-> r.status, buffer |-> b, size |-> sz + r.l,
              file |-> [f EXCEPT !.pos = r.pos]]

\* The messages of a command line: a string, a file name, a base64 text.
MessageOptions ==
    { [opt |-> "m", arg |-> <<"H", "i">>],
      [opt |-> "m", arg |-> <<>>],
      [opt |-> "f", arg |-> <<"-">>],
      [opt |-> "f", arg |-> <<"a">>],
      [opt |-> "f", arg |-> <<"n", "o">>],
      [opt |-> "b", arg |-> <<"S", "G", "k", "=">>],
      [opt |-> "b", arg |-> <<"Q", "Q">>],
      [opt |-> "b", arg |-> <<"*">>] }

nmbeVars == <<scanVars, loopVars, fmtVars, fds, opens, args, mode, header, noeol,
              argv, calls, res, end, rows, query, events, opts, result, faulty>>

\* --message (part_001, lines 231-242).
NmbeMessage ==
    /\ pc = "nmbe"
    /\ argp < Len(opts)
    /\ opts[argp + 1].opt = "m"
    /\ out' = write_buffer(out, opts[argp + 1].arg, Len(opts[argp + 1].arg), "?")
    /\ argp' = argp + 1
    /\ UNCHANGED <<nmbeVars, pc, files, size, err, status, exitcode>>

\* --message-file (part_001, lines 243-298): the file is opened, or standard
\* input taken for `-`, read to its end and written as one message of `size`
\* bytes; `size` is the variable of main and keeps what the messages before
\* left in it.
NmbeFile ==
    /\ pc = "nmbe"
    /\ argp < Len(opts)
    /\ opts[argp + 1].opt = "f"
    /\ argp' = argp + 1
    /\ LET name == opts[argp + 1].arg
       IN  IF name # <<"-">> /\ name \notin DOMAIN Disk
           THEN /\ err' = Append(err, Message("open", name, 0, 0))
                /\ status' = "ENOENT"
                /\ exitcode' = 1
                /\ pc' = "done"
                /\ UNCHANGED <<out, files, size>>
           ELSE \E junk \in JunkBytes :
                LET rd == IF name = <<"-">> THEN files[StdinHandle]
                          ELSE [content |-> Disk[name], pos |-> 0]
                    r == NmbeRead(rd, <<>>, 0, INITIAL_LEN, size[1])
                IN  /\ size' = <<r.size>>
                    /\ files' = IF name = <<"-">>
                                 THEN [files EXCEPT ![StdinHandle] = r.file]
                                 ELSE files
                    /\ out' = write_buffer(out, r.buffer, r.size, junk)
                    /\ status' = APR_SUCCESS
                    /\ UNCHANGED <<err, exitcode, pc>>
    /\ UNCHANGED nmbeVars

\* --message-base64 (part_001, lines 299-320).
NmbeBase64 ==
    /\ pc = "nmbe"
    /\ argp < Len(opts)
    /\ opts[argp + 1].opt = "b"
    /\ argp' = argp + 1
    /\ LET buffer == apr_pdecode_base64(opts[argp + 1].arg)
       IN  IF buffer = NULLSTR
           THEN /\ err' = Append(err, Message("base64", opts[argp + 1].arg, 0, 0))
                /\ exitcode' = 1
                /\ pc' = "done"
                /\ UNCHANGED <<out, size>>
           ELSE /\ size' = <<Len(buffer)>>
                /\ out' = write_buffer(out, buffer, Len(buffer), "?")
                /\ UNCHANGED <<err, exitcode, pc>>
    /\ UNCHANGED <<nmbeVars, files, status>>

\* The end of the options: `return 0` (part_001, lines 322-325).
NmbeEnd ==
    /\ pc = "nmbe"
    /\ argp = Len(opts)
    /\ pc' = "done"
    /\ exitcode' = 0
    /\ UNCHANGED <<nmbeVars, argp, out, files, size, err, status>>

NextNmbe == NmbeMessage \/ NmbeFile \/ NmbeBase64 \/ NmbeEnd

\* nmbe before its first message: `size = 0` (part_001, line 189), standard
\* input unread, nothing written.
InitNmbe ==
    /\ argp = 0
    /\ nargs = 0
    /\ nvals = 0
    /\ t = <<>>
    /\ oob = FALSE
    /\ twrites = <<>>
    /\ vals = <<>>
    /\ i = 0
    /\ j = 0
    /\ overrun = FALSE
    /\ calls = <<>>
    /\ res = NoCursor
    /\ end = FALSE
    /\ rows = 0
    /\ out = <<>>
    /\ err = <<>>
    /\ status = APR_SUCCESS
    /\ size = <<0>>
    /\ events = <<>>
    /\ exitcode = 0
    /\ result = <<>>
    /\ DefaultFormat
    /\ NoFaults
    /\ pc = "nmbe"
    /\ mode = "nmbe"
    /\ header = FALSE
    /\ noeol = FALSE
    /\ argv = <<>>
    /\ args = <<>>
    /\ query = <<>>
    /\ fds = {}
    /\ opens = <<>>
    /\ files = [h \in {StdinHandle} |-> SmallFile]
    /\ opts \in UNION {[1..n -> MessageOptions] : n \in 1..MaxMessages}

SpecNmbe == InitNmbe /\ [][NextNmbe]_vars

\* -------------------------------------------------------------- endec

\* The longest source and the longest chain of transformations of endec.
MaxInput == 3
MaxChain == 3

\* In endec the data are bytes by their values; no result at all is NoResult.
NoResult == <<-1>>

\* `%`, `4` and `G`: the bytes the sources are made of.
SourceBytes == {37, 52, 71}

IsHex(c) == c \in (48..57) \cup (65..70) \cup (97..102)
IsAlnum(c) == c \in (48..57) \cup (65..90) \cup (97..122)

HexValue(c) == IF c <= 57 THEN c - 48 ELSE IF c <= 70 THEN c - 55 ELSE c - 87
HexUpper(v) == IF v < 10 THEN 48 + v ELSE 55 + v
HexLower(v) == IF v < 10 THEN 48 + v ELSE 87 + v

\* The C string a buffer holds: the bytes before the first 0.
RECURSIVE CString(_)
CString(b) ==
    IF b = <<>> \/ Head(b) = 0 THEN <<>> ELSE <<Head(b)>> \o CString(Tail(b))

\* apr_pescape_path_segment: letters and digits as they are, every other byte
\* as `%` and two hexadecimal digits (jose.c, line 1380).
RECURSIVE apr_pescape_path_segment(_)
apr_pescape_path_segment(str) ==
    IF str = <<>> THEN <<>>
    ELSE (IF IsAlnum(Head(str)) THEN <<Head(str)>>
          ELSE <<37, HexLower(Head(str) \div 16), HexLower(Head(str) % 16)>>)
         \o apr_pescape_path_segment(Tail(str))

\* apr_punescape_url(pool, url, NULL, NULL, 0): `%` and two hexadecimal digits
\* become the byte they name; NULL when a `%` is not followed by two such
\* digits or names the byte 0 (jose.c, line 1392).
RECURSIVE apr_punescape_url(_)
apr_punescape_url(url) ==
    IF url = <<>> THEN <<>>
    ELSE IF Head(url) # 37
    THEN LET rest == apr_punescape_url(Tail(url))
         IN  IF rest = NoResult THEN NoResult ELSE <<Head(url)>> \o rest
    ELSE IF Len(url) < 3 \/ ~IsHex(url[2]) \/ ~IsHex(url[3])
            \/ HexValue(url[2]) * 16 + HexValue(url[3]) = 0
    THEN NoResult
    ELSE LET rest == apr_punescape_url(SubSeq(url, 4, Len(url)))
         IN  IF rest = NoResult THEN NoResult
             ELSE <<HexValue(url[2]) * 16 + HexValue(url[3])>> \o rest

\* apr_pencode_base16(pool, src, slen, APR_ENCODE_NONE, &len): two upper case
\* hexadecimal digits for every byte (jose.c, line 1623).
RECURSIVE apr_pencode_base16(_)
apr_pencode_base16(src) ==
    IF src = <<>> THEN <<>>
    ELSE <<HexUpper(Head(src) \div 16), HexUpper(Head(src) % 16)>>
         \o apr_pencode_base16(Tail(src))

\* apr_pdecode_base16(pool, str, slen, APR_ENCODE_NONE, &len): the byte of
\* every two hexadecimal digits; NULL when a byte is no such digit or a digit
\* is left over (jose.c, line 1667).
RECURSIVE apr_pdecode_base16(_)
apr_pdecode_base16(str) ==
    IF str = <<>> THEN <<>>
    ELSE IF Len(str) < 2 \/ ~IsHex(str[1]) \/ ~IsHex(str[2]) THEN NoResult
    ELSE LET rest == apr_pdecode_base16(SubSeq(str, 3, Len(str)))
         IN  IF rest = NoResult THEN NoResult
             ELSE <<HexValue(str[1]) * 16 + HexValue(str[2])>> \o rest

\* The positional arguments with a space between every two (jose.c, lines
\* 1318-1341).
RECURSIVE JoinArguments(_)
JoinArguments(a) ==
    IF a = <<>> THEN <<>>
    ELSE Head(a) \o (IF Len(a) > 1 THEN <<32>> \o JoinArguments(Tail(a))
                     ELSE <<>>)

\* The transformations of a chain: --url-escape, --url-unescape,
\* --base16-encode, --base16-decode.
Transformations == {"u", "U", "s", "S"}

\* The sources a run may be given.
EndecSources == UNION {[1..n -> SourceBytes] : n \in 0..MaxInput}

endecVars == <<scanVars, loopVars, fmtVars, fds, opens, args, mode, header, noeol,
               calls, res, end, rows, query, events, opts, faulty, status>>

\* --base16-decode going on with the data as they are when they are no base16.
EndecDecodeBase16Lenient ==
    /\ pc = "transform"
    /\ argp < Len(opts)
    /\ opts[argp + 1] = "S"
    /\ argp' = argp + 1
    /\ LET r == apr_pdecode_base16(SubSeq(result, 1, size[1]))
       IN  /\ result' = IF r = NoResult THEN result ELSE r
           /\ size' = IF r = NoResult THEN size ELSE <<Len(r)>>
    /\ UNCHANGED <<endecVars, argv, files, out, err, exitcode, pc>>

\* The source is read (jose.c, lines 1317-1370): the positional arguments, or
\* without any the whole of standard input.
EndecSource ==
    /\ pc = "source"
    /\ IF argv # <<>>
       THEN /\ result' = JoinArguments(argv)
            /\ size' = <<Len(JoinArguments(argv))>>
            /\ UNCHANGED files
       ELSE LET r == NmbeRead(files[StdinHandle], <<>>, 0, INITIAL_LEN - 1, 0)
            IN  /\ result' = r.buffer
                /\ size' = <<r.size>>
                /\ files' = [files EXCEPT ![StdinHandle] = r.file]
    /\ pc' = "transform"
    /\ UNCHANGED <<endecVars, argv, argp, out, err, exitcode>>

\* --url-escape (jose.c, lines 1378-1389).
EndecUrl ==
    /\ pc = "transform"
    /\ argp < Len(opts)
    /\ opts[argp + 1] = "u"
    /\ argp' = argp + 1
    /\ result' = apr_pescape_path_segment(CString(result))
    /\ size' = <<Len(apr_pescape_path_segment(CString(result)))>>
    /\ UNCHANGED <<endecVars, argv, files, out, err, exitcode, pc>>

\* --url-unescape (jose.c, lines 1390-1401).
EndecDecodeUrl ==
    /\ pc = "transform"
    /\ argp < Len(opts)
    /\ opts[argp + 1] = "U"
    /\ argp' = argp + 1
    /\ LET r == apr_punescape_url(CString(result))
       IN  IF r = NoResult
           THEN /\ err' = Append(err, Message("url unescape", <<>>, argp + 1, 0))
                /\ exitcode' = 1
                /\ pc' = "done"
                /\ UNCHANGED <<result, size>>
           ELSE /\ result' = r
                /\ size' = <<Len(CString(r))>>
                /\ UNCHANGED <<err, exitcode, pc>>
    /\ UNCHANGED <<endecVars, argv, files, out>>

\* --base16-encode (jose.c, lines 1621-1631).
EndecBase16 ==
    /\ pc = "transform"
    /\ argp < Len(opts)
    /\ opts[argp + 1] = "s"
    /\ argp' = argp + 1
    /\ result' = apr_pencode_base16(SubSeq(result, 1, size[1]))
    /\ size' = <<2 * size[1]>>
    /\ UNCHANGED <<endecVars, argv, files, out, err, exitcode, pc>>

\* --base16-decode (jose.c, lines 1665-1675).
EndecDecodeBase16 ==
    /\ pc = "transform"
    /\ argp < Len(opts)
    /\ opts[argp + 1] = "S"
    /\ argp' = argp + 1
    /\ LET r == apr_pdecode_base16(SubSeq(result, 1, size[1]))
       IN  IF r = NoResult
           THEN /\ err' = Append(err, Message("base16 decode", <<>>, argp + 1, 0))
                /\ exitcode' = 1
                /\ pc' = "done"
                /\ UNCHANGED <<result, size>>
           ELSE /\ result' = r
                /\ size' = <<Len(r)>>
                /\ UNCHANGED <<err, exitcode, pc>>
    /\ UNCHANGED <<endecVars, argv, files, out>>

\* After the last transformation the result is written, once, and 0 returned
\* (jose.c, lines 1680-1688).
EndecWrite ==
    /\ pc = "transform"
    /\ argp = Len(opts)
    /\ out' = out \o SubSeq(result, 1, size[1])
    /\ exitcode' = 0
    /\ pc' = "done"
    /\ UNCHANGED <<endecVars, argv, argp, files, result, size, err>>

NextEndec ==
    \/ EndecSource
    \/ EndecUrl
    \/ EndecDecodeUrl
    \/ EndecBase16
    \/ EndecDecodeBase16
    \/ EndecWrite

\* endec after its first pass over the options (jose.c, lines 1242-1315):
\* `size = 0`, a chain of transformations, the source on the command line or
\* on standard input, nothing written.
InitEndec ==
    /\ argp = 0
    /\ nargs = 0
    /\ nvals = 0
    /\ t = <<>>
    /\ oob = FALSE
    /\ twrites = <<>>
    /\ vals = <<>>
    /\ i = 0
    /\ j = 0
    /\ overrun = FALSE
    /\ calls = <<>>
    /\ res = NoCursor
    /\ end = FALSE
    /\ rows = 0
    /\ out = <<>>
    /\ err = <<>>
    /\ status = APR_SUCCESS
    /\ size = <<0>>
    /\ events = <<>>
    /\ exitcode = 0
    /\ result = <<>>
    /\ DefaultFormat
    /\ NoFaults
    /\ pc = "source"
    /\ mode = "endec"
    /\ header = FALSE
    /\ noeol = FALSE
    /\ args = <<>>
    /\ query = <<>>
    /\ fds = {}
    /\ opens = <<>>
    /\ opts \in UNION {[1..n -> Transformations] : n \in 0..MaxChain}
    /\ \E src \in EndecSources :
          \/ argv = <<src>> /\ files = [h \in {StdinHandle} |-> SmallFile]
          \/ /\ argv = <<>>
             /\ files = [h \in {StdinHandle} |-> [content |-> src, pos |-> 0]]

SpecEndec == InitEndec /\ [][NextEndec]_vars

\* --------------------------------------------- more claims about the scanner

\* C26: every store the classifying loop makes into the type array is at an
\* index below the count of the counting loop, the length of the array.
C26_StoresInsideTypeArray ==
    Scanned =>
        /\ ~oob
        /\ \A w \in DOMAIN twrites : twrites[w].i < nargs

\* ------------------------------------------- more claims about select mode

\* The text of the k-th statement of a select or table run.
StatementText(k) ==
    IF mode = "table" THEN SelectAllFrom(apr_dbd_escape(argv[k])) ELSE argv[k]

\* C27: in a select or table run every statement is checked against all the
\* sources and bound to all of them, whatever the statements before it took:
\* the sources keep their number, a statement reaches the driver only with as
\* many parameters as there are sources and after every source was resolved
\* for it, and the run succeeds only if each statement has exactly that many.
C27_EveryStatementTakesAllSources ==
    /\ [](mode \in {"select", "table"} =>
            /\ pc = "bound" =>
                  /\ i = Len(args)
                  /\ Cardinality(ParamPositions(StatementText(argp)))
                        = Len(args)
            /\ SelectCompleted =>
                  \A k \in 1..Len(argv) :
                      Cardinality(ParamPositions(StatementText(k))) = Len(args))
    /\ [][Len(args') = Len(args)]_vars

\* Two statements of one parameter each ran to the end on a single source.
C27_Witness ==
    /\ SelectCompleted
    /\ Len(argv) = 2
    /\ Len(args) = 1
    /\ \A k \in 1..2 : Cardinality(ParamPositions(StatementText(k))) = 1
    /\ \E c \in 1..Len(calls) : calls[c].op = "pbselect" /\ calls[c].stmt = 2

\* C29: a select or table run that reaches its end having written no header
\* and no row, a run without a statement included, has written the closing
\* line separator and nothing else, nothing at all under --no-end-of-line, and
\* reports success.
C29_EmptyResultIsOneSeparator ==
    (SelectReturned /\ FieldsOf(events) = <<>>) =>
        /\ out = Closing
        /\ Len(out) = (IF noeol THEN 0 ELSE Len(eol))
        /\ status = APR_SUCCESS
        /\ exitcode = 0

\* Two statements were executed, their cursors had no row, and the separator is
\* all the output.
C29_Witness ==
    /\ SelectReturned
    /\ ~header
    /\ ~noeol
    /\ Len(argv) = 2
    /\ Cardinality({k \in DOMAIN events : events[k].kind = "cursor"}) = 2
    /\ FieldsOf(events) = <<>>
    /\ out = eol

\* With no statement at all the run succeeds on the separator alone.
C29_WitnessNoStatement ==
    SelectReturned /\ argv = <<>> /\ header /\ out = eol /\ calls # <<>>

\* ------------------------------------------------ claims about escape mode

\* Something the run depends on has failed: a write, a fetch, an escape.
Faulted == \E k \in DOMAIN events : events[k].kind = "fault"

\* An escape run that returned without a failure.
EscapeReturned ==
    /\ mode = "escape"
    /\ pc \in {"exit", "done"}
    /\ Reported = "nothing"
    /\ ~Faulted

\* The literals from the k-th on in their escaped form, the column separator
\* between every two of them.
RECURSIVE EscapedFrom(_)
EscapedFrom(k) ==
    IF k > Len(argv) THEN <<>>
    ELSE apr_dbd_escape(argv[k])
         \o (IF k < Len(argv) THEN eoc \o EscapedFrom(k + 1) ELSE <<>>)

\* C22: an escape run given one literal or more writes the escaped forms of
\* the literals in the order given, the column separator between every two,
\* and one line separator after them unless --no-end-of-line; a single quote
\* comes out doubled.
C22_EscapedLiteralsJoined ==
    (EscapeReturned /\ Len(argv) >= 1) =>
        /\ out = EscapedFrom(1) \o Closing
        /\ status = APR_SUCCESS
        /\ (argv = << <<"j", "'", "%", "s">> >> /\ ~noeol) =>
              out = <<"j", "'", "'", "%", "s">> \o eol

\* Two literals were escaped, the second with a quote in it.
C22_Witness ==
    /\ EscapeReturned
    /\ argv = << <<"x">>, <<"j", "'", "%", "s">> >>
    /\ ~noeol
    /\ out = <<"x">> \o eoc \o <<"j", "'", "'", "%", "s">> \o eol

\* C23: an escape run resolves no source and prepares and executes nothing: the
\* sources stay unresolved and the streams unread, whatever was registered, and
\* the only calls to the driver are the open and the escapes.
C23_EscapeTouchesNoSource ==
    /\ [](mode = "escape" =>
            /\ \A c \in DOMAIN calls : calls[c].op \in {"open", "escape"}
            /\ \A k \in DOMAIN args :
                  args[k].decoded = NULLSTR /\ args[k].size = 0
            /\ \A h \in DOMAIN files : files[h].pos = 0
            /\ vals = <<>>
            /\ pc \in {"db_init", "escape", "exit", "done"})
    /\ [][mode = "escape" => (args' = args /\ files' = files)]_vars

\* An escape run with a stream registered has escaped a literal that holds a
\* parameter and has returned.
C23_Witness ==
    /\ EscapeReturned
    /\ pc = "done"
    /\ args = <<Stream(1)>>
    /\ files[1].pos = 0
    /\ argv = << <<"j", "'", "%", "s">> >>
    /\ Len(calls) = 2

\* ------------------------------------------- claims about the encoding name

\* The names encode_buffer knows.
KnownEncodings == {"none", "base64", "base64url", "echo"}

\* The header lines and row lines the run came to format.
Formatted == {k \in DOMAIN events : events[k].kind \in {"header", "row"}}

\* C30: a name given to --encoding that is none of none, base64, base64url and
\* echo makes the run fail exactly when a column name or a column value comes
\* to be formatted, at the first of them and after its statement was executed,
\* with nothing written; a select run that formats nothing, and every escape
\* and modify-query run, sees no failure of the encoding; a known name never
\* fails.
C30_UnknownEncodingFailsOnFirstValue ==
    /\ Reported = "encoding" <=>
          (encoding \notin KnownEncodings /\ Formatted # {})
    /\ Reported = "encoding" =>
          /\ mode \in {"select", "table"}
          /\ status = APR_EGENERAL
          /\ pc \in {"exit", "done"}
          /\ pc = "done" => exitcode # 0
          /\ Cardinality(Formatted) = 1
          /\ out = <<>>
          /\ Last(calls).stmt = argp
          /\ Last(calls).op = (IF header THEN "pbselect" ELSE "get_row")

\* Under an unknown name the first statement returned no row and the run failed
\* on the first row of the second.
C30_Witness ==
    /\ encoding = UnknownEncoding
    /\ mode = "select"
    /\ ~header
    /\ pc = "done"
    /\ argp = 2
    /\ Reported = "encoding"
    /\ exitcode = 2

\* Under an unknown name a select run that had nothing to format succeeded.
C30_WitnessNothingFormatted ==
    /\ encoding = UnknownEncoding
    /\ mode = "select"
    /\ pc = "done"
    /\ status = APR_SUCCESS
    /\ \E k \in DOMAIN events : events[k].kind = "cursor"

\* ------------------------------------------------- claims about failures

\* C21: once something has failed, the open, a prepare, an execute, the fetch
\* of a row, the encoding of a value or a write to the output, in whatever
\* mode, no call reaches the driver any more and no byte is written any more,
\* the closing line separator included; the step that fails takes nothing
\* back of what was written before it.
C21_NothingAfterFailure ==
    [][ /\ (Faulted \/ err # <<>>) => (out' = out /\ calls' = calls)
        /\ Len(out') >= Len(out)
        /\ SubSeq(out', 1, Len(out)) = out ]_vars

\* ---------------------------------------------- claims about the dispatch

\* The mode the options stand for: escape before table and select, these
\* before query.
ModeOf(o) ==
    CASE o.escape -> "escape"
      [] o.table -> "table"
      [] o.select -> "select"
      [] o.query -> "query"
      [] OTHER -> "none"

\* The calls a mode makes to the driver.
OpsOf(m) ==
    CASE m = "escape" -> {"open", "escape"}
      [] m = "table" -> {"open", "escape", "prepare", "pbselect", "get_row"}
      [] m = "select" -> {"open", "prepare", "pbselect", "get_row"}
      [] m = "query" -> {"open", "prepare", "pbquery"}
      [] OTHER -> {}

Runnable(o) == o.driver /\ o.params /\ ModeOf(o) # "none"

\* C28: one mode runs and no other: escape when --escape was given, otherwise
\* the tabular mode when --table or --select was, making its statement up from
\* the table name whenever --table was, otherwise modify-query; without any
\* mode option, without a driver or without parameters the run ends with exit
\* status 1 and no call to the driver.
C28_ExactlyOneMode ==
    /\ [](/\ mode \in {"none", ModeOf(opts)}
          /\ \A c \in DOMAIN calls : calls[c].op \in OpsOf(ModeOf(opts))
          /\ (opts.table /\ ~opts.escape) =>
                \A c \in DOMAIN calls :
                    calls[c].op = "prepare" =>
                        calls[c].query
                          = SelectAllFrom(apr_dbd_escape(argv[calls[c].stmt]))
          /\ Runnable(opts) =>
                (pc = "done" => (mode = ModeOf(opts) /\ calls # <<>>))
          /\ ~Runnable(opts) =>
                /\ mode = "none"
                /\ calls = <<>>
                /\ out = <<>>
                /\ pc \in {"parsed", "done"}
                /\ pc = "done" => exitcode = 1)
    /\ [][mode # "none" => mode' = mode]_vars

\* --table, --select and --query were all given: the statement was made up from
\* the table name and the tabular mode ran to its end.
C28_Witness ==
    /\ opts.table /\ opts.select /\ opts.query /\ ~opts.escape
    /\ SelectCompleted
    /\ mode = "table"
    /\ \E c \in DOMAIN calls : calls[c].op = "pbselect"

\* No mode option was given and the run has ended with status 1.
C28_WitnessNoMode ==
    /\ opts.driver /\ opts.params /\ ModeOf(opts) = "none"
    /\ pc = "done"
    /\ exitcode = 1

\* ------------------------------------------------------ claims about nmbe

\* What a message option stands for when it is taken alone: the string, the
\* decoded text, the bytes the file still has to give.
MessageOf(o, stdin) ==
    CASE o.opt = "m" -> o.arg
      [] o.opt = "b" -> apr_pdecode_base64(o.arg)
      [] o.arg = <<"-">> -> stdin
      [] OTHER -> Disk[o.arg]

\* The frames of the options from the k-th on, standard input holding stdin.
RECURSIVE FramesFrom(_, _)
FramesFrom(k, stdin) ==
    IF k > Len(opts) THEN <<>>
    ELSE LET m == MessageOf(opts[k], stdin)
         IN  U32(Len(m)) \o m
             \o FramesFrom(k + 1, IF opts[k] = [opt |-> "f", arg |-> <<"-">>]
                                  THEN <<>> ELSE stdin)

\* C24: nmbe writes every message as one frame, the length of that message
\* alone as a 32 bit unsigned integer and then its bytes, whatever messages
\* went before it, the frames in the order of the command line.
C24_OneFramePerMessage ==
    (mode = "nmbe" /\ pc = "done" /\ exitcode = 0) =>
        out = FramesFrom(1, SmallFile.content)

\* ----------------------------------------------------- claims about endec

\* The source of the run, as it was given.
SourceGiven ==
    IF argv # <<>> THEN JoinArguments(argv) ELSE files[StdinHandle].content

\* What one transformation makes of data, NoResult when it rejects them.
Transformed(x, data) ==
    CASE x = "u" -> apr_pescape_path_segment(CString(data))
      [] x = "U" -> apr_punescape_url(CString(data))
      [] x = "s" -> apr_pencode_base16(data)
      [] OTHER -> apr_pdecode_base16(data)

\* Some transformation from the k-th on rejects what reaches it.
RECURSIVE RejectedFrom(_, _)
RejectedFrom(k, data) ==
    IF k > Len(opts) THEN FALSE
    ELSE LET r == Transformed(opts[k], data)
         IN  IF r = NoResult THEN TRUE ELSE RejectedFrom(k + 1, r)

\* C25: when a decoding or unescaping transformation of the chain rejects what
\* reaches it, endec exits with a status that is not 0 and writes no byte to
\* its destination, whatever transformations stand before or after it; and it
\* exits so only then.
C25_RejectedInputWritesNothing ==
    mode = "endec" =>
        /\ RejectedFrom(1, SourceGiven) => out = <<>>
        /\ pc = "done" => (exitcode # 0 <=> RejectedFrom(1, SourceGiven))
        /\ (pc = "done" /\ exitcode # 0) => err # <<>>

\* A base16 decoding standing between an escape and an encoding has rejected
\* the escaped data, and the run has ended.
C25_Witness ==
    /\ mode = "endec"
    /\ opts = <<"u", "S", "s">>
    /\ SourceGiven = <<37, 52>>
    /\ pc = "done"
    /\ exitcode = 1
    /\ argp = 2
    /\ out = <<>>

====
